---- MODULE Spec2Model ----
(***************************************************************************)
(* A model of the hexe schema compiler.                                    *)
(*                                                                         *)
(*   - parser.Validate, the whole-bag semantic validator: its eight check  *)
(*     blocks run in the order of the source, each one an action of        *)
(*     SpecValidate, over the AST lists the first block merges from the    *)
(*     input documents.                                                    *)
(*   - the pretty-printer (the Format methods of package ast) and the      *)
(*     parser (package parser) over texts made of lexical atoms, under     *)
(*     SpecFormat.                                                         *)
(*                                                                         *)
(* AST nodes are records.  A Value is [kind, name, v]; a Type is a record  *)
(* tagged by kind; names are strings.                                      *)
(***************************************************************************)
EXTENDS Integers, Sequences, FiniteSets, TLC

VARIABLES
    docs,          \* the documents as parsed, in the order given to Validate
    bag,           \* the same documents as they are in memory: Validate
                   \* writes to their nodes through its slices
    before,        \* the documents in memory as the current call began
    call,          \* which call of Validate on the documents this is
    past,          \* what the calls before it returned
    consts,        \* Validate's local slices of AST nodes ...
    enums,
    models,
    services,
    customErrors,
    pc,            \* the check block Validate is about to run
    result,        \* what Validate returned: "" is nil, else the message
    depth,         \* deepest nesting of findConstValue calls reached
    goServices,    \* the Go back-end's services, each method with its type
    tsServices,    \* the TypeScript back-end's services, each method with
                   \* its request and response type
    src,           \* pretty-printer run: the source text
    doc1,          \* ... ParseDocument(src)
    out1,          \* ... Format(doc1)
    doc2,          \* ... ParseDocument(out1)
    out2,          \* ... Format(doc2)
    fpc,           \* ... the step the run is at
    enumTokens,    \* ParseEnum run: the tokens the parser is given
    enumOut,       \* ... what ParseEnum returned: an enum or an error
    epc,           \* ... the step the run is at
    tagField,      \* field tag run: the model field the Go back-end is given
    tagOut,        \* ... the tag getGolangModelFieldTag returned
    tagPc,         \* ... the step the run is at
    litToken,      \* literal run: the duration or byte-size token
    litValue,      \* ... what ParseValue returned: a value or an error
    litOut,        \* ... the text getGolangValue returned for the value
    litPc,         \* ... the step the run is at
    lexInput,      \* token hand-off: the tokens the lexer emits, EOF last
    lexAt,         \* ... how many of them the lexer has emitted
    emitter,       \* ... the EmitterIterator: its channel and end
    parser,        \* ... the Parser's slots currTok and nextTok
    returned,      \* ... the tokens Parser.Next returned so far
    lastPeek,      \* ... what Peek returned since the last Next, if called
    peeks,         \* ... how many times Peek was called
    stopped,       \* ... the parser has returned and calls no more
    psTokens,      \* parser run: the token stream ParseDocument reads, EOF last
    psAt,          \* ... the place of the token Peek returns
    psComments,    \* ... the parser's pending comments (p.comments)
    psMode,        \* ... the production whose loop runs, or how the parse ended
    psDoc,         \* ... the document built so far
    psNode,        \* ... the container being built
    psAfter,       \* ... the container whose production has just returned
    psSince,       \* ... the comments read since the last member of the body
    rtMax,         \* retryTransport.MaxRetries
    rtBody,        \* whether the request has a body and GetBody
    rtPc,          \* where RoundTrip is
    rtAttempt,     \* the loop's attempt
    rtSent,        \* what Transport.RoundTrip returned, attempt by attempt
    rtCtxDone,     \* the request's context is done
    rtResult,      \* what RoundTrip returned
    hrMax,         \* httpReceiver.maxConnectionRetries
    hrActive,      \* the goroutines that call Receive
    hrConnected,   \* httpReceiver.connected
    hrReceiver,    \* httpReceiver.receiver, 0 for nil
    hrConns,       \* the connections made, in order
    hrPc,          \* where each call of Receive is
    hrAttempt,     \* each call's attempt
    hrLocal,       \* each call's receiver
    hrCtxDone,     \* each call's context is done
    hrResult,      \* what each call returned
    hrConnects,    \* each call's connection attempts
    hrFailures,    \* each call's failed connection attempts
    hrLost,        \* the connection each call has lost
    sseStream,     \* the lines of an event stream
    sseInsert,     \* the number of lines before the inserted comment
    sseBlank,      \* whether an empty line follows the inserted comment
    ssePc,         \* whether Parse has run
    ssePlain,      \* the messages Parse delivers of the stream
    sseCommented,  \* the messages Parse delivers of the stream with the comment
    msgIn,         \* the Message that is read
    msgCap,        \* the length of the reader's buffer
    msgBuffer,     \* Message.buffer
    msgRemaining,  \* Message.readerRemaining
    msgBytes,      \* the bytes read so far
    msgPc,         \* where the copy is
    msgOut,        \* the Message that was written
    puTimeout,     \* whether rawPusher.timeout is positive
    puClosed,      \* rawPusher.closed
    puMtx,         \* the goroutine that holds rawPusher.mtx
    puTimer,       \* rawPusher.timer
    puDone,        \* how often rawPusher.done was closed
    puPc,          \* where each goroutine is
    puCalls,       \* the calls of Push each goroutine has made
    puErr,         \* what each goroutine's last call returned
    puLate,        \* whether each goroutine's call began after a Close had returned
    puWritten,     \* the messages written to rawPusher.w
    puCloseReturned,\* a call of Close has returned
    puWrittenLate, \* the messages written after a Close had returned
    puFired        \* how often the timer has fired

valVars ==
    <<docs, bag, before, call, past, consts, enums, models, services,
      customErrors, pc, result, depth, goServices, tsServices>>
fmtVars == <<src, doc1, out1, doc2, out2, fpc>>
enumVars == <<enumTokens, enumOut, epc>>
tagVars == <<tagField, tagOut, tagPc>>
litVars == <<litToken, litValue, litOut, litPc>>
handVars ==
    <<lexInput, lexAt, emitter, parser, returned, lastPeek, peeks, stopped>>
parseVars == <<psTokens, psAt, psComments, psMode, psDoc, psNode, psAfter, psSince>>
retryVars == <<rtMax, rtBody, rtPc, rtAttempt, rtSent, rtCtxDone, rtResult>>
receiveVars == <<hrMax, hrActive, hrConnected, hrReceiver, hrConns, hrPc, hrAttempt, hrLocal, hrCtxDone, hrResult, hrConnects, hrFailures, hrLost>>
sseVars == <<sseStream, sseInsert, sseBlank, ssePc, ssePlain, sseCommented>>
messageVars == <<msgIn, msgCap, msgBuffer, msgRemaining, msgBytes, msgPc, msgOut>>
pusherVars == <<puTimeout, puClosed, puMtx, puTimer, puDone, puPc, puCalls, puErr, puLate, puWritten, puCloseReturned, puWrittenLate, puFired>>
vars ==
    <<valVars, fmtVars, enumVars, tagVars, litVars, handVars, parseVars, retryVars, receiveVars, sseVars, messageVars, pusherVars>>

\* What a run of one part of the compiler leaves alone.
otherThanValidate ==
    <<fmtVars, enumVars, tagVars, litVars, handVars, parseVars, retryVars, receiveVars, sseVars, messageVars, pusherVars>>
otherThanFormat ==
    <<valVars, enumVars, tagVars, litVars, handVars, parseVars, retryVars, receiveVars, sseVars, messageVars, pusherVars>>
otherThanEnum ==
    <<valVars, fmtVars, tagVars, litVars, handVars, parseVars, retryVars, receiveVars, sseVars, messageVars, pusherVars>>
otherThanTag ==
    <<valVars, fmtVars, enumVars, litVars, handVars, parseVars, retryVars, receiveVars, sseVars, messageVars, pusherVars>>
otherThanLiteral ==
    <<valVars, fmtVars, enumVars, tagVars, handVars, parseVars, retryVars, receiveVars, sseVars, messageVars, pusherVars>>
otherThanHandOff ==
    <<valVars, fmtVars, enumVars, tagVars, litVars, parseVars, retryVars, receiveVars, sseVars, messageVars, pusherVars>>
otherThanParse ==
    <<valVars, fmtVars, enumVars, tagVars, litVars, handVars, retryVars, receiveVars, sseVars, messageVars, pusherVars>>
otherThanRetry ==
    <<valVars, fmtVars, enumVars, tagVars, litVars, handVars, parseVars, receiveVars, sseVars, messageVars, pusherVars>>
otherThanReceive ==
    <<valVars, fmtVars, enumVars, tagVars, litVars, handVars, parseVars, retryVars, sseVars, messageVars, pusherVars>>
otherThanSse ==
    <<valVars, fmtVars, enumVars, tagVars, litVars, handVars, parseVars, retryVars, receiveVars, messageVars, pusherVars>>
otherThanMessage ==
    <<valVars, fmtVars, enumVars, tagVars, litVars, handVars, parseVars, retryVars, receiveVars, sseVars, pusherVars>>
otherThanPusher ==
    <<valVars, fmtVars, enumVars, tagVars, litVars, handVars, parseVars, retryVars, receiveVars, sseVars, messageVars>>

\* The variables of a part of the compiler that is not run.
IdleValidate ==
    /\ docs = <<>>
    /\ bag = <<>>
    /\ before = <<>>
    /\ call = 0
    /\ past = <<>>
    /\ consts = <<>>
    /\ enums = <<>>
    /\ models = <<>>
    /\ services = <<>>
    /\ customErrors = <<>>
    /\ pc = "idle"
    /\ result = ""
    /\ depth = 0
    /\ goServices = <<>>
    /\ tsServices = <<>>

IdleFormat ==
    /\ src = <<>>
    /\ doc1 = <<>>
    /\ out1 = <<>>
    /\ doc2 = <<>>
    /\ out2 = <<>>
    /\ fpc = "idle"

IdleEnum ==
    /\ enumTokens = <<>>
    /\ enumOut = <<>>
    /\ epc = "idle"

IdleTag ==
    /\ tagField = <<>>
    /\ tagOut = <<>>
    /\ tagPc = "idle"

IdleLiteral ==
    /\ litToken = <<>>
    /\ litValue = <<>>
    /\ litOut = <<>>
    /\ litPc = "idle"

IdleHandOff ==
    /\ lexInput = <<>>
    /\ lexAt = 0
    /\ emitter = <<>>
    /\ parser = <<>>
    /\ returned = <<>>
    /\ lastPeek = <<>>
    /\ peeks = 0
    /\ stopped = FALSE

IdleParse ==
    /\ psTokens = <<>>
    /\ psAt = 0
    /\ psComments = <<>>
    /\ psMode = "idle"
    /\ psDoc = <<>>
    /\ psNode = <<>>
    /\ psAfter = ""
    /\ psSince = <<>>

IdleRetry ==
    /\ rtMax = 0
    /\ rtBody = FALSE
    /\ rtPc = "idle"
    /\ rtAttempt = 0
    /\ rtSent = <<>>
    /\ rtCtxDone = FALSE
    /\ rtResult = <<>>

IdleReceive ==
    /\ hrMax = 0
    /\ hrActive = {}
    /\ hrConnected = FALSE
    /\ hrReceiver = 0
    /\ hrConns = <<>>
    /\ hrPc = <<>>
    /\ hrAttempt = <<>>
    /\ hrLocal = <<>>
    /\ hrCtxDone = <<>>
    /\ hrResult = <<>>
    /\ hrConnects = <<>>
    /\ hrFailures = <<>>
    /\ hrLost = <<>>

IdleSse ==
    /\ sseStream = <<>>
    /\ sseInsert = 0
    /\ sseBlank = FALSE
    /\ ssePc = "idle"
    /\ ssePlain = <<>>
    /\ sseCommented = <<>>

IdleMessage ==
    /\ msgIn = <<>>
    /\ msgCap = 0
    /\ msgBuffer = <<>>
    /\ msgRemaining = 0
    /\ msgBytes = <<>>
    /\ msgPc = "idle"
    /\ msgOut = <<>>

IdlePusher ==
    /\ puTimeout = FALSE
    /\ puClosed = 0
    /\ puMtx = ""
    /\ puTimer = "nil"
    /\ puDone = 0
    /\ puPc = <<>>
    /\ puCalls = <<>>
    /\ puErr = <<>>
    /\ puLate = <<>>
    /\ puWritten = 0
    /\ puCloseReturned = FALSE
    /\ puWrittenLate = 0
    /\ puFired = 0

(***************************************************************************)
(* Sequences.                                                              *)
(***************************************************************************)
Range(s) == {s[i] : i \in 1..Len(s)}

RECURSIVE Concat(_)
Concat(ss) == IF Len(ss) = 0 THEN <<>> ELSE Head(ss) \o Concat(Tail(ss))

FlatMap(F(_), s) == Concat([i \in 1..Len(s) |-> F(s[i])])

SeqsUpTo(S, n) == UNION {[1..k -> S] : k \in 0..n}

\* The first error a sequence of checks reports: "" when every one passes.
FirstError(evs) ==
    IF \E i \in 1..Len(evs) : evs[i] # ""
    THEN evs[CHOOSE i \in 1..Len(evs) :
                 evs[i] # "" /\ \A j \in 1..(i - 1) : evs[j] = ""]
    ELSE ""

(***************************************************************************)
(* AST constructors.                                                       *)
(***************************************************************************)
ValueInt(n) == [kind |-> "Int", name |-> "", v |-> n]
ValueBool(b) == [kind |-> "Bool", name |-> "", v |-> IF b THEN 1 ELSE 0]
ValueVariable(n) == [kind |-> "Variable", name |-> n, v |-> 0]

TByte == [kind |-> "Byte"]
TString == [kind |-> "String"]
TArray(t) == [kind |-> "Array", elem |-> t]
TMap(k, t) == [kind |-> "Map", key |-> k, value |-> t]
TCustomType(n) == [kind |-> "CustomType", name |-> n]

ServiceRPC == "rpc"
ServiceHTTP == "http"

Const(n, val) == [name |-> n, value |-> val]
Enum(n, sets) == [name |-> n, sets |-> sets]
Option(n, val) == [name |-> n, value |-> val]
Field(n, t, opts) == [name |-> n, type |-> t, options |-> opts]
Model(n, fields) == [name |-> n, fields |-> fields]
Arg(n, t, stream) == [name |-> n, type |-> t, stream |-> stream]
Method(n, args, rets, opts) ==
    [name |-> n, args |-> args, returns |-> rets, options |-> opts]
Service(n, typ, methods) == [name |-> n, type |-> typ, methods |-> methods]
CustomError(n, code) == [name |-> n, code |-> code]
Document(cs, es, ms, ss, errs) ==
    [consts |-> cs, enums |-> es, models |-> ms, services |-> ss, errors |-> errs]

EmptyDocument == Document(<<>>, <<>>, <<>>, <<>>, <<>>)

(***************************************************************************)
(* Names.  strcase.IsPascal and strcase.IsCamel look at the first          *)
(* character; the names of the model are listed by their first character's *)
(* case.  Go compares strings bytewise: NameOrder lists the names the      *)
(* custom errors of the model carry in that order.                         *)
(***************************************************************************)
UpperNames ==
    {"A", "B", "C", "D", "E", "F", "G", "M", "N", "Opt", "Get",
     "HttpA", "HttpB", "RpcA", "RpcB"}
LowerNames == {"a1", "a2", "a3", "a4", "r1", "r2", "r3", "r4", "lower", "err"}

IsPascal(n) == n \in UpperNames
IsCamel(n) == n \in LowerNames

NameOrder == <<"A", "B", "C", "D", "HttpA", "HttpB", "M">>
NameRank(n) == CHOOSE i \in 1..Len(NameOrder) : NameOrder[i] = n
NameLess(a, b) == NameRank(a) < NameRank(b)

(***************************************************************************)
(* Validate's messages.                                                    *)
(***************************************************************************)
ErrPascal == "name should be PascalCase"
ErrCamel == "name should be camelCase"
ErrNameUsed == "name is already used"
ErrEnumKey == "key is already used in the same enum"
ErrFieldName == "field name is already used in the same model"
ErrFieldOption == "option name is already used in the same field"
ErrMethodName == "method name is already used in the same service"
ErrArgName == "argument name is already used in the same method"
ErrReserved == "err is a reserved name"
ErrReturnName == "return name is already used in the same method"
ErrReturnArg == "return name is already used in the same method as argument"
ErrMethodOption == "option name is already used in the same method"
ErrUnknownConst == "unknown constant is not defined"
ErrTypeUndefined == "type is not defined"
ErrCodeUsed == "code is already used"
ErrRpcStream == "stream is not allowed in rpc service"
ErrByteArray == "byte array is not allowed in model fields"
ErrStreamArg == "stream should be the last argument"
ErrStreamReturn == "stream should be the only return type"
\* Not a return value: the Go runtime ends the process when a goroutine's
\* stack outgrows its limit.
FatalStackOverflow == "fatal error: stack overflow"

(***************************************************************************)
(* Block 1: identifier casing.  The checks in the order the loops make     *)
(* them; Validate returns at the first that fails.                         *)
(***************************************************************************)
PascalCheck(n) == IF IsPascal(n) THEN "" ELSE ErrPascal
CamelCheck(n) == IF IsCamel(n) THEN "" ELSE ErrCamel

OptionCasing(o) == <<PascalCheck(o.name)>>
EnumCasing(e) ==
    <<PascalCheck(e.name)>>
        \o [k \in 1..Len(e.sets) |->
                IF e.sets[k] = "_" THEN "" ELSE PascalCheck(e.sets[k])]
FieldCasing(f) == <<PascalCheck(f.name)>> \o FlatMap(OptionCasing, f.options)
ModelCasing(m) == <<PascalCheck(m.name)>> \o FlatMap(FieldCasing, m.fields)
MethodCasing(m) ==
    <<PascalCheck(m.name)>>
        \o [i \in 1..Len(m.args) |-> CamelCheck(m.args[i].name)]
        \o [i \in 1..Len(m.returns) |-> CamelCheck(m.returns[i].name)]
        \o FlatMap(OptionCasing, m.options)
ServiceCasing(s) == <<PascalCheck(s.name)>> \o FlatMap(MethodCasing, s.methods)

checkCasing(cs, es, ms, ss) ==
    FirstError([i \in 1..Len(cs) |-> PascalCheck(cs[i].name)]
                   \o FlatMap(EnumCasing, es)
                   \o FlatMap(ModelCasing, ms)
                   \o FlatMap(ServiceCasing, ss))

(***************************************************************************)
(* Block 2: duplicate names.  duplicateNames holds the names of the        *)
(* constants, enums, models and services met so far; the maps of the       *)
(* nested names are per enum, model, field, service and method.            *)
(***************************************************************************)
Names(s) == {s[i].name : i \in 1..Len(s)}
NamesBefore(s, i) == {s[j].name : j \in 1..(i - 1)}

DuplicateCheck(s, i, msg) == IF s[i].name \in NamesBefore(s, i) THEN msg ELSE ""

EnumKeyChecks(e) ==
    [k \in 1..Len(e.sets) |->
        IF e.sets[k] # "_" /\ \E j \in 1..(k - 1) : e.sets[j] = e.sets[k]
        THEN ErrEnumKey ELSE ""]

FieldNameChecks(m) ==
    Concat([i \in 1..Len(m.fields) |->
        <<DuplicateCheck(m.fields, i, ErrFieldName)>>
            \o [k \in 1..Len(m.fields[i].options) |->
                    DuplicateCheck(m.fields[i].options, k, ErrFieldOption)]])

ArgNameChecks(m) ==
    [i \in 1..Len(m.args) |->
        IF m.args[i].name \in NamesBefore(m.args, i) THEN ErrArgName
        ELSE IF m.args[i].name = "err" THEN ErrReserved
        ELSE ""]

ReturnNameChecks(m) ==
    [i \in 1..Len(m.returns) |->
        IF m.returns[i].name \in NamesBefore(m.returns, i) THEN ErrReturnName
        ELSE IF m.returns[i].name = "err" THEN ErrReserved
        ELSE IF m.returns[i].name \in Names(m.args) THEN ErrReturnArg
        ELSE ""]

MethodNameChecks(s) ==
    Concat([i \in 1..Len(s.methods) |->
        <<DuplicateCheck(s.methods, i, ErrMethodName)>>
            \o ArgNameChecks(s.methods[i])
            \o ReturnNameChecks(s.methods[i])
            \o [k \in 1..Len(s.methods[i].options) |->
                    DuplicateCheck(s.methods[i].options, k, ErrMethodOption)]])

\* The top-level declarations of one kind, `seen` being duplicateNames as the
\* loop over this kind starts.
TopNameChecks(s, seen, Nested(_)) ==
    Concat([i \in 1..Len(s) |->
        <<IF s[i].name \in seen \cup NamesBefore(s, i) THEN ErrNameUsed ELSE "">>
            \o Nested(s[i])])

NoNested(c) == <<>>

checkDuplicateNames(cs, es, ms, ss) ==
    FirstError(TopNameChecks(cs, {}, NoNested)
                   \o TopNameChecks(es, Names(cs), EnumKeyChecks)
                   \o TopNameChecks(ms, Names(cs) \cup Names(es), FieldNameChecks)
                   \o TopNameChecks(ss, Names(cs) \cup Names(es) \cup Names(ms),
                                    MethodNameChecks))

(***************************************************************************)
(* Block 3: constant resolution.                                           *)
(***************************************************************************)
\* Nested findConstValue calls a goroutine's stack holds before the runtime
\* ends the process.
StackLimit == 6

\* constMap[name]: the loop that fills the map lets a later constant of the
\* same name replace an earlier one.
constMapHas(cs, n) == \E i \in 1..Len(cs) : cs[i].name = n
constMapGet(cs, n) ==
    cs[CHOOSE i \in 1..Len(cs) :
           cs[i].name = n /\ \A j \in (i + 1)..Len(cs) : cs[j].name # n]

\* findConstValue(name), entered with d calls already on the stack: the value
\* found ("ok"), nil ("nil"), or the stack outgrown ("overflow"); `depth` is
\* the deepest nesting reached.
\* findConstValue returning the value the named constant holds, a Variable
\* included, without following it.
findConstValueOnce(cs, n, d) ==
    IF ~constMapHas(cs, n)
    THEN [status |-> "nil", value |-> ValueVariable(n), depth |-> d]
    ELSE [status |-> "ok", value |-> constMapGet(cs, n).value, depth |-> d]

RECURSIVE findConstValue(_, _, _)
findConstValue(cs, n, d) ==
    IF d > StackLimit
    THEN [status |-> "overflow", value |-> ValueVariable(n), depth |-> d]
    ELSE IF ~constMapHas(cs, n)
    THEN [status |-> "nil", value |-> ValueVariable(n), depth |-> d]
    ELSE IF constMapGet(cs, n).value.kind = "Variable"
    THEN findConstValue(cs, constMapGet(cs, n).value.name, d + 1)
    ELSE [status |-> "ok", value |-> constMapGet(cs, n).value, depth |-> d]

LookupError(r) ==
    IF r.status = "overflow" THEN FatalStackOverflow
    ELSE IF r.status = "nil" THEN ErrUnknownConst
    ELSE ""

Max(a, b) == IF a >= b THEN a ELSE b

\* The loop over consts from index i on: every constant holding a Variable is
\* given the value found, in place, so the constants after it are looked up
\* in the map as changed so far.
RECURSIVE resolveConsts(_, _, _)
resolveConsts(cs, i, d) ==
    IF i > Len(cs) THEN [consts |-> cs, err |-> "", depth |-> d]
    ELSE IF cs[i].value.kind # "Variable" THEN resolveConsts(cs, i + 1, d)
    ELSE LET r == findConstValue(cs, cs[i].value.name, 1)
         IN  IF r.status # "ok"
             THEN [consts |-> cs, err |-> LookupError(r), depth |-> Max(d, r.depth)]
             ELSE resolveConsts([cs EXCEPT ![i].value = r.value], i + 1,
                                Max(d, r.depth))

\* A loop that changes the elements of s in place and returns at the first
\* error: the elements before it changed, it and the ones after it as Step
\* left them.  Step(x) is [val, err].
RECURSIVE ForEachUntilError(_, _)
ForEachUntilError(Step(_), s) ==
    IF Len(s) = 0 THEN [val |-> <<>>, err |-> ""]
    ELSE LET r == Step(Head(s))
         IN  IF r.err # ""
             THEN [val |-> <<r.val>> \o Tail(s), err |-> r.err]
             ELSE LET rest == ForEachUntilError(Step, Tail(s))
                  IN  [val |-> <<r.val>> \o rest.val, err |-> rest.err]

resolveOption(cs, o) ==
    IF o.value.kind # "Variable" THEN [val |-> o, err |-> ""]
    ELSE LET r == findConstValue(cs, o.value.name, 1)
         IN  IF r.status # "ok" THEN [val |-> o, err |-> LookupError(r)]
             ELSE [val |-> [o EXCEPT !.value = r.value], err |-> ""]

resolveOptionsOf(cs, x) ==
    LET r == ForEachUntilError(LAMBDA o : resolveOption(cs, o), x.options)
    IN  [val |-> [x EXCEPT !.options = r.val], err |-> r.err]

resolveModel(cs, m) ==
    LET r == ForEachUntilError(LAMBDA f : resolveOptionsOf(cs, f), m.fields)
    IN  [val |-> [m EXCEPT !.fields = r.val], err |-> r.err]

resolveService(cs, s) ==
    LET r == ForEachUntilError(LAMBDA m : resolveOptionsOf(cs, m), s.methods)
    IN  [val |-> [s EXCEPT !.methods = r.val], err |-> r.err]

\* The whole block: constants, then model field options, then method options.
resolveConstants(cs, ms, ss) ==
    LET c == resolveConsts(cs, 1, 0)
        m == ForEachUntilError(LAMBDA x : resolveModel(c.consts, x), ms)
        s == ForEachUntilError(LAMBDA x : resolveService(c.consts, x), ss)
    IN  IF c.err # ""
        THEN [consts |-> c.consts, models |-> ms, services |-> ss,
              err |-> c.err, depth |-> c.depth]
        ELSE IF m.err # ""
        THEN [consts |-> c.consts, models |-> m.val, services |-> ss,
              err |-> m.err, depth |-> c.depth]
        ELSE [consts |-> c.consts, models |-> m.val, services |-> s.val,
              err |-> s.err, depth |-> c.depth]

(***************************************************************************)
(* Block 4: custom types exist.                                            *)
(***************************************************************************)
RECURSIVE checkTypeExists(_, _)
checkTypeExists(typesMap, t) ==
    IF t.kind = "Map" THEN checkTypeExists(typesMap, t.value)
    ELSE IF t.kind = "Array" THEN checkTypeExists(typesMap, t.elem)
    ELSE IF t.kind = "CustomType"
    THEN IF t.name \in typesMap THEN "" ELSE ErrTypeUndefined
    ELSE ""

checkCustomTypes(es, ms, ss) ==
    LET typesMap == Names(ms) \cup Names(es)
        OfList(s) == [i \in 1..Len(s) |-> checkTypeExists(typesMap, s[i].type)]
    IN  FirstError(FlatMap(LAMBDA m : OfList(m.fields), ms)
                       \o FlatMap(LAMBDA s :
                              FlatMap(LAMBDA m : OfList(m.args) \o OfList(m.returns),
                                      s.methods),
                              ss))

(***************************************************************************)
(* Block 5: custom error codes.  Code is an int64.  The codes of the model *)
(* lie within a few units of 0, of the largest int64 and of the smallest;  *)
(* MaxInt64 stands for the largest, and between such values order and      *)
(* successor are those of the int64 they stand for.                        *)
(***************************************************************************)
MaxInt64 == 1000
MinInt64 == -MaxInt64 - 1

\* maxCode++ on an int64: Go wraps around.
Inc64(x) == IF x = MaxInt64 THEN MinInt64 ELSE x + 1

IndexOrders(n) == {p \in [1..n -> 1..n] : \A i, j \in 1..n : p[i] = p[j] => i = j}

\* sort.Slice is not stable: any order of the elements that is ascending by
\* name may come out.  An order q puts element q[i] at index i.
sortOrders(es) ==
    {q \in IndexOrders(Len(es)) :
        \A i, j \in 1..Len(es) : i < j => ~NameLess(es[q[j]].name, es[q[i]].name)}

Permuted(es, q) == [i \in 1..Len(es) |-> es[q[i]]]

sortSlice(es) == {Permuted(es, q) : q \in sortOrders(es)}

\* The first loop: reservedCodes as the loop reaches element i is the set of
\* the non-zero codes before it.
codeChecks(es) ==
    [i \in 1..Len(es) |->
        IF \E j \in 1..(i - 1) : es[j].code # 0 /\ es[j].code = es[i].code
        THEN ErrCodeUsed ELSE ""]

\* maxCode taken from the last explicit code met instead of the greatest.
RECURSIVE maxCodeOfLast(_)
maxCodeOfLast(es) ==
    IF Len(es) = 0 THEN 0
    ELSE IF es[Len(es)].code # 0 THEN es[Len(es)].code
    ELSE maxCodeOfLast(SubSeq(es, 1, Len(es) - 1))

RECURSIVE maxCodeOf(_)
maxCodeOf(es) ==
    IF Len(es) = 0 THEN 0
    ELSE LET m == maxCodeOf(Tail(es))
         IN  IF Head(es).code # 0 THEN Max(m, Head(es).code) ELSE m

\* The second loop numbering every error, whatever its code.
RECURSIVE assignFromAll(_, _)
assignFromAll(es, maxCode) ==
    IF Len(es) = 0 THEN <<>>
    ELSE <<[Head(es) EXCEPT !.code = Inc64(maxCode)]>>
             \o assignFromAll(Tail(es), Inc64(maxCode))

\* The second loop, from maxCode on.
RECURSIVE assignFrom(_, _)
assignFrom(es, maxCode) ==
    IF Len(es) = 0 THEN <<>>
    ELSE IF Head(es).code = 0
    THEN <<[Head(es) EXCEPT !.code = Inc64(maxCode)]>>
             \o assignFrom(Tail(es), Inc64(maxCode))
    ELSE <<Head(es)>> \o assignFrom(Tail(es), maxCode)

\* The block on the slice as sorted.
assignCodes(sorted) ==
    IF FirstError(codeChecks(sorted)) # ""
    THEN [errors |-> sorted, err |-> FirstError(codeChecks(sorted))]
    ELSE [errors |-> assignFrom(sorted, maxCodeOf(sorted)), err |-> ""]

(***************************************************************************)
(* Block 6: no stream in an RPC service.                                   *)
(***************************************************************************)
\* The block without its loop over the returns.
checkRpcStreamArgs(ss) ==
    LET OfList(s) == [i \in 1..Len(s) |-> IF s[i].stream THEN ErrRpcStream ELSE ""]
    IN  FirstError(FlatMap(LAMBDA s :
                       IF s.type = ServiceRPC
                       THEN FlatMap(LAMBDA m : OfList(m.args), s.methods)
                       ELSE <<>>,
                       ss))

checkRpcStream(ss) ==
    LET OfList(s) == [i \in 1..Len(s) |-> IF s[i].stream THEN ErrRpcStream ELSE ""]
    IN  FirstError(FlatMap(LAMBDA s :
                       IF s.type = ServiceRPC
                       THEN FlatMap(LAMBDA m : OfList(m.args) \o OfList(m.returns),
                                    s.methods)
                       ELSE <<>>,
                       ss))

(***************************************************************************)
(* Block 7: no array of bytes in a model field.                            *)
(***************************************************************************)
\* isTypeArrayBytes looking at the element of the outermost array only.
isTypeArrayBytesDirect(t) == t.kind = "Array" /\ t.elem.kind = "Byte"

\* isTypeArrayBytes returns the byte token, or nil: TRUE for a token.
RECURSIVE isTypeArrayBytes(_)
isTypeArrayBytes(t) ==
    IF t.kind = "Array"
    THEN IF t.elem.kind = "Byte" THEN TRUE ELSE isTypeArrayBytes(t.elem)
    ELSE FALSE

checkModelBytes(ms) ==
    FirstError(FlatMap(LAMBDA m :
                   [i \in 1..Len(m.fields) |->
                       IF m.fields[i].type.kind = "Array"
                          /\ isTypeArrayBytes(m.fields[i].type)
                       THEN ErrByteArray ELSE ""],
                   ms))

(***************************************************************************)
(* Block 8: stream placement in the methods of an HTTP service.            *)
(***************************************************************************)
\* One of the two loops of a method, over its args or over its returns:
\* hasStream as the loop reaches element i says whether an element before it
\* is a stream.
hasStreamAt(s, i) == \E j \in 1..(i - 1) : s[j].stream

\* The loop without its else branch: only a second stream is reported.
streamChecksSecond(s, msg) ==
    [i \in 1..Len(s) |-> IF s[i].stream /\ hasStreamAt(s, i) THEN msg ELSE ""]

streamChecks(s, msg) ==
    [i \in 1..Len(s) |->
        IF s[i].stream
        THEN IF hasStreamAt(s, i) THEN msg ELSE ""
        ELSE IF hasStreamAt(s, i) THEN msg ELSE ""]

checkHttpStream(ss) ==
    FirstError(FlatMap(LAMBDA s :
                   IF s.type # ServiceHTTP THEN <<>>
                   ELSE FlatMap(LAMBDA m :
                            streamChecks(m.args, ErrStreamArg)
                                \o streamChecks(m.returns, ErrStreamReturn),
                            s.methods),
                   ss))

(***************************************************************************)
(* The slices of Validate hold the documents' own nodes (pointers): what   *)
(* a block assigns through a slice, it assigns in the documents.  A slice  *)
(* built by the merge holds the nodes of the first document, then those    *)
(* of the second, and so on.                                               *)
(***************************************************************************)
\* The part of the merged slice xs that came from a document with n nodes
\* after documents with `skip` nodes in all.
Part(xs, skip, n) == SubSeq(xs, skip + 1, skip + n)

RECURSIVE storeFrom(_, _, _, _, _, _)
storeFrom(ds, cs, ms, ss, errs, k) ==
    IF k > Len(ds) THEN <<>>
    ELSE LET d == ds[k]
         IN  <<[d EXCEPT !.consts = Part(cs, 0, Len(d.consts)),
                         !.models = Part(ms, 0, Len(d.models)),
                         !.services = Part(ss, 0, Len(d.services)),
                         !.errors = Part(errs, 0, Len(d.errors))]>>
                 \o storeFrom(ds,
                              Part(cs, Len(d.consts), Len(cs) - Len(d.consts)),
                              Part(ms, Len(d.models), Len(ms) - Len(d.models)),
                              Part(ss, Len(d.services), Len(ss) - Len(d.services)),
                              Part(errs, Len(d.errors), Len(errs) - Len(d.errors)),
                              k + 1)

\* The documents ds with the nodes of the merged slices in them.
store(ds, cs, ms, ss, errs) == storeFrom(ds, cs, ms, ss, errs, 1)

\* The custom errors left in the documents in the order of the sort.
AsSorted(es, q) == es

\* The custom errors in the order of the merge, given them in the order q
\* the sort left them in.
Unsorted(es, q) ==
    [j \in 1..Len(es) |-> es[CHOOSE i \in 1..Len(es) : q[i] = j]]

(***************************************************************************)
(* Validate, block by block.  pc names the block about to run; "returned"  *)
(* is Validate having returned `result`, "fatal" the process ended.        *)
(***************************************************************************)
\* The blocks with the HTTP stream placement run before the byte-array ban.
NextBlockHttpFirst(b) ==
    CASE b = "merge" -> "casing"
      [] b = "casing" -> "names"
      [] b = "names" -> "consts"
      [] b = "consts" -> "types"
      [] b = "types" -> "codes"
      [] b = "codes" -> "rpc"
      [] b = "rpc" -> "http"
      [] b = "http" -> "bytes"
      [] b = "bytes" -> "returned"

\* The order of the blocks in the source.
NextBlock(b) ==
    CASE b = "merge" -> "casing"
      [] b = "casing" -> "names"
      [] b = "names" -> "consts"
      [] b = "consts" -> "types"
      [] b = "types" -> "codes"
      [] b = "codes" -> "rpc"
      [] b = "rpc" -> "bytes"
      [] b = "bytes" -> "http"
      [] b = "http" -> "returned"

\* `return NewError(...)` when the block found an error, else on to the next
\* block; the last block falls through to `return nil`.
Continue(b, err) ==
    IF err = FatalStackOverflow THEN pc' = "fatal" /\ result' = err
    ELSE IF err # "" THEN pc' = "returned" /\ result' = err
    ELSE pc' = NextBlock(b) /\ result' = ""

Merge ==
    /\ pc = "merge"
    /\ consts' = FlatMap(LAMBDA d : d.consts, bag)
    /\ enums' = FlatMap(LAMBDA d : d.enums, bag)
    /\ models' = FlatMap(LAMBDA d : d.models, bag)
    /\ services' = FlatMap(LAMBDA d : d.services, bag)
    /\ customErrors' = FlatMap(LAMBDA d : d.errors, bag)
    /\ Continue("merge", "")
    /\ UNCHANGED <<docs, bag, before, call, past, depth, goServices, tsServices,
                   otherThanValidate>>

CheckCasing ==
    /\ pc = "casing"
    /\ Continue("casing", checkCasing(consts, enums, models, services))
    /\ UNCHANGED <<docs, bag, before, call, past, consts, enums, models,
                   services, customErrors, depth, goServices, tsServices,
                   otherThanValidate>>

CheckDuplicateNames ==
    /\ pc = "names"
    /\ Continue("names", checkDuplicateNames(consts, enums, models, services))
    /\ UNCHANGED <<docs, bag, before, call, past, consts, enums, models,
                   services, customErrors, depth, goServices, tsServices,
                   otherThanValidate>>

ResolveConstants ==
    /\ pc = "consts"
    /\ LET r == resolveConstants(consts, models, services)
       IN  /\ consts' = r.consts
           /\ models' = r.models
           /\ services' = r.services
           /\ depth' = r.depth
           /\ bag' = store(bag, r.consts, r.models, r.services, customErrors)
           /\ Continue("consts", r.err)
    /\ UNCHANGED <<docs, before, call, past, enums, customErrors, goServices, tsServices,
                   otherThanValidate>>

CheckCustomTypes ==
    /\ pc = "types"
    /\ Continue("types", checkCustomTypes(enums, models, services))
    /\ UNCHANGED <<docs, bag, before, call, past, consts, enums, models,
                   services, customErrors, depth, goServices, tsServices,
                   otherThanValidate>>

AssignCodes ==
    /\ pc = "codes"
    /\ \E q \in sortOrders(customErrors) :
          LET r == assignCodes(Permuted(customErrors, q))
          IN  /\ customErrors' = r.errors
              /\ bag' = store(bag, consts, models, services, Unsorted(r.errors, q))
              /\ Continue("codes", r.err)
    /\ UNCHANGED <<docs, before, call, past, consts, enums, models, services,
                   depth, goServices, tsServices, otherThanValidate>>

CheckRpcStream ==
    /\ pc = "rpc"
    /\ Continue("rpc", checkRpcStream(services))
    /\ UNCHANGED <<docs, bag, before, call, past, consts, enums, models,
                   services, customErrors, depth, goServices, tsServices,
                   otherThanValidate>>

CheckModelBytes ==
    /\ pc = "bytes"
    /\ Continue("bytes", checkModelBytes(models))
    /\ UNCHANGED <<docs, bag, before, call, past, consts, enums, models,
                   services, customErrors, depth, goServices, tsServices,
                   otherThanValidate>>

CheckHttpStream ==
    /\ pc = "http"
    /\ Continue("http", checkHttpStream(services))
    /\ UNCHANGED <<docs, bag, before, call, past, consts, enums, models,
                   services, customErrors, depth, goServices, tsServices,
                   otherThanValidate>>

(***************************************************************************)
(* The Go generator's view of the services: main runs Generate on the      *)
(* documents once Validate has returned nil.                               *)
(***************************************************************************)
MethodJsonToJson == 0
MethodJsonToSSE == 1
MethodJsonToBinary == 2
MethodBinaryToJson == 3
MethodBinaryToSSE == 4
MethodBinaryToBinary == 5

RECURSIVE getGolangType(_, _)
getGolangType(t, ms) ==
    CASE t.kind = "CustomType" ->
            IF \E i \in 1..Len(ms) : ms[i].name = t.name THEN "*" \o t.name ELSE t.name
      [] t.kind = "Byte" -> "byte"
      [] t.kind = "String" -> "string"
      [] t.kind = "Map" ->
            "map[" \o getGolangType(t.key, ms) \o "]" \o getGolangType(t.value, ms)
      [] t.kind = "Array" -> "[]" \o getGolangType(t.elem, ms)

\* The Go type of the first stream one among args or returns, "" without one.
streamType(ps, ms) ==
    IF \E i \in 1..Len(ps) : ps[i].stream
    THEN getGolangType(ps[CHOOSE i \in 1..Len(ps) :
                              ps[i].stream /\ \A j \in 1..(i - 1) : ~ps[j].stream].type,
                       ms)
    ELSE ""

\* The method type with only a stream argument of type []byte an upload.
methodTypeBytesUpload(argStreamType, retStreamType) ==
    IF argStreamType # "[]byte" /\ retStreamType = "" THEN MethodJsonToJson
    ELSE IF argStreamType # "[]byte" /\ retStreamType = "[]byte" THEN MethodJsonToBinary
    ELSE IF argStreamType # "[]byte" /\ retStreamType # "" THEN MethodJsonToSSE
    ELSE IF retStreamType = "" THEN MethodBinaryToJson
    ELSE IF retStreamType = "[]byte" THEN MethodBinaryToBinary
    ELSE MethodBinaryToSSE

methodType(argStreamType, retStreamType) ==
    IF argStreamType = "" /\ retStreamType = "" THEN MethodJsonToJson
    ELSE IF argStreamType = "" /\ retStreamType = "[]byte" THEN MethodJsonToBinary
    ELSE IF argStreamType = "" /\ retStreamType # "" THEN MethodJsonToSSE
    ELSE IF argStreamType # "" /\ retStreamType = "" THEN MethodBinaryToJson
    ELSE IF argStreamType # "" /\ retStreamType = "[]byte" THEN MethodBinaryToBinary
    ELSE MethodBinaryToSSE

GoMethod(s, m, ms) ==
    [name |-> m.name, serviceName |-> s.name,
     type |-> methodType(streamType(m.args, ms), streamType(m.returns, ms))]

GoService(s, ms) ==
    [name |-> s.name, type |-> s.type,
     methods |-> <<>> \o [j \in 1..Len(s.methods) |-> GoMethod(s, s.methods[j], ms)]]

\* getServicesByType for the HTTP and then the RPC services.
goServicesOf(ss, ms) ==
    FlatMap(LAMBDA s : IF s.type = ServiceHTTP THEN <<GoService(s, ms)>> ELSE <<>>, ss)
        \o FlatMap(LAMBDA s : IF s.type = ServiceRPC THEN <<GoService(s, ms)>> ELSE <<>>, ss)

Generate ==
    /\ pc = "returned"
    /\ result = ""
    /\ goServices' = goServicesOf(services, models)
    /\ pc' = "generated"
    /\ UNCHANGED <<docs, bag, before, call, past, consts, enums, models,
                   services, customErrors, result, depth, tsServices,
                   otherThanValidate>>

(***************************************************************************)
(* The TypeScript generator's view of the HTTP services, when the output   *)
(* file is a .ts one.                                                      *)
(***************************************************************************)
RECURSIVE getTypescriptType(_)
getTypescriptType(t) ==
    CASE t.kind = "String" -> "string"
      [] t.kind = "Array" -> getTypescriptType(t.elem) \o "[]"
      [] t.kind = "Map" ->
            "{ [key: " \o getTypescriptType(t.key) \o "]: "
                \o getTypescriptType(t.value) \o " }"
      [] t.kind = "CustomType" -> t.name
      [] t.kind = "Byte" -> "byte"

\* The first loop: FILE_UPLOAD at a stream argument of type byte[].
ReqType(m) ==
    IF \E i \in 1..Len(m.args) :
           m.args[i].stream /\ getTypescriptType(m.args[i].type) = "byte[]"
    THEN "FILE_UPLOAD" ELSE "JSON"

\* The second loop: the first stream return decides.
RespType(m) ==
    IF ~\E i \in 1..Len(m.returns) : m.returns[i].stream THEN "JSON"
    ELSE LET i == CHOOSE i \in 1..Len(m.returns) :
                      m.returns[i].stream /\ \A j \in 1..(i - 1) : ~m.returns[j].stream
         IN  IF getTypescriptType(m.returns[i].type) = "byte[]" THEN "BLOB" ELSE "SSE"

TsMethod(s, m) ==
    [name |-> m.name, serviceName |-> s.name, reqType |-> ReqType(m),
     respType |-> RespType(m)]

TsService(s) ==
    [name |-> s.name,
     methods |-> <<>> \o [j \in 1..Len(s.methods) |-> TsMethod(s, s.methods[j])]]

tsServicesOf(ss) ==
    FlatMap(LAMBDA s : IF s.type = ServiceHTTP THEN <<TsService(s)>> ELSE <<>>, ss)

GenerateTypescript ==
    /\ pc = "returned"
    /\ result = ""
    /\ tsServices' = tsServicesOf(services)
    /\ pc' = "generatedTs"
    /\ UNCHANGED <<docs, bag, before, call, past, consts, enums, models,
                   services, customErrors, result, depth, goServices,
                   otherThanValidate>>

\* Validate called once more on the documents as the call before left them.
MaxCalls == 2

ValidateAgain ==
    /\ pc = "returned"
    /\ call < MaxCalls
    /\ call' = call + 1
    /\ past' = Append(past, result)
    /\ before' = bag
    /\ pc' = "merge"
    /\ result' = ""
    /\ depth' = 0
    /\ UNCHANGED <<docs, bag, consts, enums, models, services, customErrors,
                   goServices, tsServices, otherThanValidate>>

NextValidate ==
    \/ ValidateAgain
    \/ Merge
    \/ CheckCasing
    \/ CheckDuplicateNames
    \/ ResolveConstants
    \/ CheckCustomTypes
    \/ AssignCodes
    \/ CheckRpcStream
    \/ CheckModelBytes
    \/ CheckHttpStream
    \/ Generate
    \/ GenerateTypescript

(***************************************************************************)
(* The document bags Validate is run on.                                   *)
(***************************************************************************)
MaxConsts == 3
MaxErrors == 2
MaxParams == 3
MaxTypeDepth == 3

OneDoc(cs, es, ms, ss, errs) == <<Document(cs, es, ms, ss, errs)>>

\* Constants A, B, ... holding a literal of their own (the i-th holds i), a
\* reference to any of them, or a reference to E, which is not declared; one
\* model field option and one method option holding a flag or a reference.
ConstNames == <<"A", "B", "C", "D">>
ConstValues(n, i) ==
    {ValueInt(i), ValueVariable("E")}
        \cup {ValueVariable(ConstNames[k]) : k \in 1..n}
ConstValuations(n) ==
    {vals \in [1..n -> ConstValues(n, 1) \cup {ValueInt(i) : i \in 1..n}] :
        \A i \in 1..n : vals[i] \in ConstValues(n, i)}
FieldOptionValues == {ValueBool(TRUE), ValueVariable("A"), ValueVariable("E")}
MethodOptionValues == {ValueBool(TRUE), ValueVariable("B")}

ConstSeqs ==
    UNION {{<<>> \o [i \in 1..n |-> Const(ConstNames[i], vals[i])] :
               vals \in ConstValuations(n)} :
           n \in 0..MaxConsts}

ConstBags ==
    {OneDoc(cs,
            <<>>,
            <<Model("M", <<Field("F", TString, <<Option("Opt", fo)>>)>>)>>,
            <<Service("HttpA", ServiceHTTP,
                      <<Method("Get", <<>>, <<>>, <<Option("Opt", mo)>>)>>)>>,
            <<>>) :
        cs \in ConstSeqs, fo \in FieldOptionValues, mo \in MethodOptionValues}

\* Custom errors with any names and codes, equal names and codes included,
\* alone or followed by error B with code 2.
ErrorBags ==
    {OneDoc(<<>>, <<>>, <<>>, <<>>, es \o last) :
        es \in SeqsUpTo({CustomError(n, c) : n \in {"A", "B", "C"},
                                              c \in {0, 5, MaxInt64}},
                        MaxErrors),
        last \in {<<>>, <<CustomError("B", 2)>>}}

\* One method of an HTTP or RPC service with any stream flags on its
\* arguments and returns, MaxParams of them in all, the stream arguments of
\* type string or []byte and so the stream returns.
ParamNames == <<"a1", "a2", "a3", "a4">>
ReturnNames == <<"r1", "r2", "r3", "r4">>
Params(names, flags, st) ==
    <<>> \o [i \in 1..Len(flags) |->
                Arg(names[i], IF flags[i] THEN st ELSE TString, flags[i])]

StreamFlags ==
    {f \in SeqsUpTo(BOOLEAN, MaxParams) \X SeqsUpTo(BOOLEAN, MaxParams) :
        Len(f[1]) + Len(f[2]) <= MaxParams}

StreamBags ==
    {OneDoc(<<>>, <<>>, <<>>,
            <<Service(IF typ = ServiceHTTP THEN "HttpA" ELSE "RpcA", typ,
                      <<Method("Get", Params(ParamNames, f[1], sa),
                               Params(ReturnNames, f[2], sr), <<>>)>>)>>,
            <<>>) :
        typ \in {ServiceHTTP, ServiceRPC},
        sa \in {TString, TArray(TByte)},
        sr \in {TString, TArray(TByte)},
        f \in StreamFlags}

\* One model field of any type.
RECURSIVE TypesUpTo(_)
TypesUpTo(d) ==
    IF d = 0 THEN {TByte, TString, TCustomType("M")}
    ELSE TypesUpTo(d - 1)
             \cup {TArray(t) : t \in TypesUpTo(d - 1)}
             \cup {TMap(TString, t) : t \in TypesUpTo(d - 1)}

TypeBags ==
    {OneDoc(<<>>, <<>>, <<Model("M", <<Field("F", t, <<>>)>>)>>, <<>>, <<>>) :
        t \in TypesUpTo(MaxTypeDepth)}

\* Two top-level declarations of any kinds and names, in one document or in
\* one document each.
Kinds == {"const", "enum", "model", "service", "error"}
Declare(kind, n) ==
    CASE kind = "const" -> Document(<<Const(n, ValueInt(7))>>, <<>>, <<>>, <<>>, <<>>)
      [] kind = "enum" -> Document(<<>>, <<Enum(n, <<"A">>)>>, <<>>, <<>>, <<>>)
      [] kind = "model" -> Document(<<>>, <<>>, <<Model(n, <<>>)>>, <<>>, <<>>)
      [] kind = "service" ->
            Document(<<>>, <<>>, <<>>, <<Service(n, ServiceHTTP, <<>>)>>, <<>>)
      [] kind = "error" -> Document(<<>>, <<>>, <<>>, <<>>, <<CustomError(n, 0)>>)

\* The declarations of two documents written in one file.
JoinDocs(a, b) ==
    Document(a.consts \o b.consts, a.enums \o b.enums, a.models \o b.models,
             a.services \o b.services, a.errors \o b.errors)

NameBags ==
    UNION {{<<Declare(k1, n1), Declare(k2, n2)>>,
            <<JoinDocs(Declare(k1, n1), Declare(k2, n2))>>} :
           k1 \in Kinds, k2 \in Kinds,
           n1 \in {"HttpA", "HttpB"}, n2 \in {"HttpA", "HttpB"}}

\* Bags breaking any subset of the eight checks: v[k] says whether check k is
\* broken; the constant C is also made to refer to itself (v[3] = 2).
OrderBag(v) ==
    OneDoc(<<Const(IF v[1] = 1 THEN "lower" ELSE "A", ValueInt(7)),
             Const("C", IF v[3] = 1 THEN ValueVariable("E")
                        ELSE IF v[3] = 2 THEN ValueVariable("C")
                        ELSE ValueInt(9))>>,
           IF v[2] = 1 THEN <<Enum("D", <<"A">>), Enum("D", <<"A">>)>>
           ELSE <<Enum("D", <<"A">>)>>,
           <<Model("M", <<Field("F", IF v[4] = 1 THEN TCustomType("N") ELSE TString,
                                <<>>),
                          Field("G", IF v[7] = 1 THEN TArray(TByte) ELSE TString,
                                <<>>)>>)>>,
           <<Service("RpcA", ServiceRPC,
                     <<Method("Get", <<Arg("a1", TString, v[6] = 1)>>, <<>>, <<>>)>>),
             Service("HttpA", ServiceHTTP,
                     <<Method("Get", <<Arg("a1", TString, v[8] = 1),
                                       Arg("a2", TString, FALSE)>>,
                              <<>>, <<>>)>>)>>,
           <<CustomError("A", 5), CustomError("B", IF v[5] = 1 THEN 5 ELSE 0)>>)

OrderBags ==
    {OrderBag(v) : v \in {w \in [1..8 -> 0..2] : \A k \in 1..8 : k # 3 => w[k] < 2}}

ValidateInputs ==
    ConstBags \cup ErrorBags \cup StreamBags \cup TypeBags \cup NameBags \cup OrderBags

InitValidate ==
    /\ docs \in ValidateInputs
    /\ bag = docs
    /\ before = docs
    /\ call = 1
    /\ past = <<>>
    /\ consts = <<>>
    /\ enums = <<>>
    /\ models = <<>>
    /\ services = <<>>
    /\ customErrors = <<>>
    /\ pc = "merge"
    /\ result = ""
    /\ depth = 0
    /\ goServices = <<>>
    /\ tsServices = <<>>
    /\ IdleFormat
    /\ IdleEnum
    /\ IdleTag
    /\ IdleLiteral
    /\ IdleHandOff
    /\ IdleParse
    /\ IdleRetry
    /\ IdleReceive
    /\ IdleSse
    /\ IdleMessage
    /\ IdlePusher

SpecValidate == InitValidate /\ [][NextValidate]_vars

(***************************************************************************)
(* The bag as the current call of Validate was given it, and what each     *)
(* check of Validate says of it.                                           *)
(***************************************************************************)
DeclaredConsts == FlatMap(LAMBDA d : d.consts, before)
DeclaredEnums == FlatMap(LAMBDA d : d.enums, before)
DeclaredModels == FlatMap(LAMBDA d : d.models, before)
DeclaredServices == FlatMap(LAMBDA d : d.services, before)
DeclaredErrors == FlatMap(LAMBDA d : d.errors, before)

Resolved == resolveConstants(DeclaredConsts, DeclaredModels, DeclaredServices)

VerdictCasing ==
    checkCasing(DeclaredConsts, DeclaredEnums, DeclaredModels, DeclaredServices)
VerdictNames ==
    checkDuplicateNames(DeclaredConsts, DeclaredEnums, DeclaredModels,
                        DeclaredServices)
VerdictConsts == Resolved.err
VerdictTypes == checkCustomTypes(DeclaredEnums, Resolved.models, Resolved.services)
VerdictCodes ==
    IF \E sorted \in sortSlice(DeclaredErrors) : assignCodes(sorted).err # ""
    THEN ErrCodeUsed ELSE ""
VerdictRpc == checkRpcStream(Resolved.services)
VerdictBytes == checkModelBytes(Resolved.models)
VerdictHttp == checkHttpStream(Resolved.services)

Returned == pc \in {"returned", "generated", "generatedTs"}
Accepted == pc \in {"returned", "generated", "generatedTs"} /\ result = ""
Crashed == pc = "fatal"

(***************************************************************************)
(* C2: custom-error codes.                                                 *)
(***************************************************************************)
ExplicitCodes ==
    LET es == DeclaredErrors
    IN  {es[i].code : i \in {j \in 1..Len(es) : es[j].code # 0}}
ZeroCoded ==
    LET es == DeclaredErrors
    IN  {i \in 1..Len(es) : es[i].code = 0}
MaxExplicit ==
    CHOOSE m \in ExplicitCodes \cup {0} : \A c \in ExplicitCodes \cup {0} : c <= m
DuplicateExplicit ==
    LET es == DeclaredErrors
    IN  \E i, j \in 1..Len(es) :
            /\ i # j
            /\ es[i].code # 0
            /\ es[i].code = es[j].code

\* The errors of the validated bag whose code was assigned, and the place of
\* each among them.
AssignedAt ==
    LET explicit == ExplicitCodes
    IN  {i \in 1..Len(customErrors) : customErrors[i].code \notin explicit}
AssignedRank(i) == Cardinality({j \in AssignedAt : j <= i})

RECURSIVE Inc64Times(_, _)
Inc64Times(x, k) == IF k = 0 THEN x ELSE Inc64(Inc64Times(x, k - 1))

\* C2 as stated: after a successful Validate every code assigned to a
\* zero-coded error is strictly greater than every explicitly declared code.
C2_AssignedAboveExplicit ==
    Accepted =>
        \A i \in AssignedAt : \A c \in ExplicitCodes : customErrors[i].code > c

\* C2 amended: after a successful Validate all codes are non-zero and pairwise
\* distinct, the explicitly coded errors are kept as declared, and the
\* zero-coded errors, taken in ascending order of name, hold max+1, max+2,
\* ... counted in wrapping 64-bit arithmetic, max being the greatest explicit
\* code (0 when there is none); these are strictly greater than every
\* explicit code whenever max plus the number of zero-coded errors does not
\* pass the greatest int64.  Two errors carrying the same explicit code make
\* Validate fail, with "code is already used" when no earlier check rejects.
C2_CodesAssigned ==
    /\ Accepted =>
        /\ \A i \in 1..Len(customErrors) : customErrors[i].code # 0
        /\ \A i, j \in 1..Len(customErrors) :
              i # j => customErrors[i].code # customErrors[j].code
        /\ \A i, j \in 1..Len(customErrors) :
              i < j => ~NameLess(customErrors[j].name, customErrors[i].name)
        /\ Len(customErrors) = Len(DeclaredErrors)
        /\ LET es == DeclaredErrors
               at == AssignedAt
               zc == ZeroCoded
               top == MaxExplicit
           IN  /\ \A i \in 1..Len(customErrors) :
                     i \notin at => \E k \in 1..Len(es) : es[k] = customErrors[i]
               /\ \A n \in UpperNames :
                     Cardinality({i \in at : customErrors[i].name = n})
                         = Cardinality({k \in zc : es[k].name = n})
               /\ \A i \in at :
                     customErrors[i].code = Inc64Times(top, AssignedRank(i))
               /\ top + Cardinality(zc) <= MaxInt64 =>
                     \A i \in at : \A c \in ExplicitCodes : customErrors[i].code > c
    /\ DuplicateExplicit =>
        /\ pc \notin {"rpc", "bytes", "http"}
        /\ Returned => result # ""
        /\ Returned /\ VerdictCasing = "" /\ VerdictNames = "" /\ VerdictConsts = ""
                /\ VerdictTypes = ""
              => result = ErrCodeUsed

\* Two zero-coded errors numbered above an explicit code.
C2_Witness ==
    /\ Accepted
    /\ Cardinality(ZeroCoded) >= 2
    /\ ExplicitCodes # {}
    /\ \E i, j \in AssignedAt : i < j /\ NameLess(customErrors[i].name, customErrors[j].name)

(***************************************************************************)
(* C3: constant references.                                                *)
(***************************************************************************)
DeclaredConstNames == {DeclaredConsts[i].name : i \in 1..Len(DeclaredConsts)}
DeclaredConstValue(n) ==
    DeclaredConsts[CHOOSE i \in 1..Len(DeclaredConsts) : DeclaredConsts[i].name = n].value

\* The value at the end of the chain of references that starts at val, read
\* off the constants as declared, following at most `fuel` references.
RECURSIVE ChainEnd(_, _)
ChainEnd(val, fuel) ==
    IF val.kind # "Variable" \/ fuel = 0 \/ val.name \notin DeclaredConstNames THEN val
    ELSE ChainEnd(DeclaredConstValue(val.name), fuel - 1)

ResolveValue(val) == ChainEnd(val, Len(DeclaredConsts))
ResolveOptions(opts) ==
    [k \in 1..Len(opts) |-> [opts[k] EXCEPT !.value = ResolveValue(opts[k].value)]]
ResolveCarriers(xs) ==
    [j \in 1..Len(xs) |-> [xs[j] EXCEPT !.options = ResolveOptions(xs[j].options)]]

\* The values a bag holds where Validate resolves references.
ValuesOf(cs, ms, ss) ==
    {cs[i].value : i \in 1..Len(cs)}
        \cup UNION {UNION {{ms[i].fields[j].options[k].value :
                               k \in 1..Len(ms[i].fields[j].options)} :
                           j \in 1..Len(ms[i].fields)} :
                    i \in 1..Len(ms)}
        \cup UNION {UNION {{ss[i].methods[j].options[k].value :
                               k \in 1..Len(ss[i].methods[j].options)} :
                           j \in 1..Len(ss[i].methods)} :
                    i \in 1..Len(ss)}

DanglingRef ==
    \E val \in ValuesOf(DeclaredConsts, DeclaredModels, DeclaredServices) :
        val.kind = "Variable" /\ val.name \notin DeclaredConstNames

\* C3: after a successful Validate no Variable is left in a constant, a model
\* field option or a method option; each holds the literal at the end of its
\* chain of references as declared, in whatever order the constants are
\* declared, and nothing else of them has changed.  A reference to a name
\* that is no declared constant makes Validate fail, with "unknown constant
\* is not defined" when no earlier check rejects.
C3_ReferencesResolved ==
    /\ Accepted =>
        /\ \A val \in ValuesOf(consts, models, services) : val.kind # "Variable"
        /\ Len(consts) = Len(DeclaredConsts)
        /\ \A i \in 1..Len(consts) :
              consts[i] = [DeclaredConsts[i] EXCEPT
                              !.value = ResolveValue(DeclaredConsts[i].value)]
        /\ Len(models) = Len(DeclaredModels)
        /\ \A i \in 1..Len(models) :
              models[i] = [DeclaredModels[i] EXCEPT
                              !.fields = ResolveCarriers(DeclaredModels[i].fields)]
        /\ Len(services) = Len(DeclaredServices)
        /\ \A i \in 1..Len(services) :
              services[i] = [DeclaredServices[i] EXCEPT
                                !.methods = ResolveCarriers(DeclaredServices[i].methods)]
    /\ DanglingRef =>
        /\ pc \notin {"types", "codes", "rpc", "bytes", "http"}
        /\ Returned => result # ""
        /\ Returned /\ VerdictCasing = "" /\ VerdictNames = ""
              => result = ErrUnknownConst

\* A constant referring to one declared after it that itself refers on, and
\* a field option referring to a constant, all resolved.
C3_Witness ==
    /\ Accepted
    /\ \E i, j \in 1..Len(DeclaredConsts) :
          /\ i < j
          /\ DeclaredConsts[i].value = ValueVariable(DeclaredConsts[j].name)
          /\ DeclaredConsts[j].value.kind = "Variable"
          /\ consts[i].value.kind = "Int"
    /\ \E val \in ValuesOf(<<>>, DeclaredModels, <<>>) : val.kind = "Variable"

(***************************************************************************)
(* C4: constants that refer to each other in a cycle.                      *)
(***************************************************************************)
\* Some constant's chain of references never reaches a literal or an
\* undeclared name.
CyclicConsts ==
    \E i \in 1..Len(DeclaredConsts) :
        LET e == ResolveValue(DeclaredConsts[i].value)
        IN  e.kind = "Variable" /\ e.name \in DeclaredConstNames

\* C4 as stated: constant resolution never nests deeper than the number of
\* declared constants, and a bag with cyclic constants makes Validate return
\* an error: it does not end the process.
C4_CyclesReturnError ==
    /\ depth <= Len(DeclaredConsts)
    /\ CyclicConsts => ~Crashed /\ (Returned => result # "")

(***************************************************************************)
(* C5: names shared by top-level declarations.                             *)
(***************************************************************************)
NameSeq(s) == <<>> \o [i \in 1..Len(s) |-> s[i].name]
TopLevelNames ==
    NameSeq(DeclaredConsts) \o NameSeq(DeclaredEnums) \o NameSeq(DeclaredModels)
        \o NameSeq(DeclaredServices) \o NameSeq(DeclaredErrors)

SharedTopLevelName ==
    \E i, j \in 1..Len(TopLevelNames) : i # j /\ TopLevelNames[i] = TopLevelNames[j]

\* C5 as stated: a bag in which two top-level declarations of any kinds,
\* custom errors included, share a name is never accepted.
C5_SharedNameRejected == SharedTopLevelName => ~Accepted

MethodsOf(typ) ==
    FlatMap(LAMBDA s : IF s.type = typ THEN s.methods ELSE <<>>, DeclaredServices)

StreamsAt(ps) == {i \in 1..Len(ps) : ps[i].stream}

\* C7 as stated: in an accepted bag every HTTP method has no stream return,
\* or one return in all, the stream one.
C7_StreamReturnAlone ==
    Accepted =>
        \A k \in 1..Len(MethodsOf(ServiceHTTP)) :
            LET rs == MethodsOf(ServiceHTTP)[k].returns
            IN  StreamsAt(rs) = {} \/ (Len(rs) = 1 /\ rs[1].stream)

GoodStreamArgs(m) == StreamsAt(m.args) = {} \/ StreamsAt(m.args) = {Len(m.args)}

\* C8: a bag with an HTTP method that has more than one stream argument, or a
\* stream argument followed by another argument, is never accepted: when the
\* checks before pass Validate returns a stream-placement error, "stream
\* should be the last argument" when the method is the first HTTP method;
\* and that error is returned for no bag whose HTTP methods all have no
\* stream argument or exactly one, in last position.
C8_StreamArgLast ==
    LET ms == MethodsOf(ServiceHTTP)
        earlier == FirstError(<<VerdictCasing, VerdictNames, VerdictConsts, VerdictTypes,
                                VerdictCodes, VerdictRpc, VerdictBytes>>)
    IN  /\ (\E k \in 1..Len(ms) : ~GoodStreamArgs(ms[k])) =>
              /\ ~Accepted
              /\ Returned /\ earlier = "" => result \in {ErrStreamArg, ErrStreamReturn}
              /\ Returned /\ earlier = "" /\ ~GoodStreamArgs(ms[1]) => result = ErrStreamArg
        /\ (\A k \in 1..Len(ms) : GoodStreamArgs(ms[k])) => result # ErrStreamArg

\* An HTTP method rejected for an only stream argument that is not the last.
C8_Witness ==
    /\ Returned
    /\ result = ErrStreamArg
    /\ \E k \in 1..Len(MethodsOf(ServiceHTTP)) :
          LET as == MethodsOf(ServiceHTTP)[k].args
          IN  Cardinality(StreamsAt(as)) = 1 /\ Len(as) \notin StreamsAt(as)

(***************************************************************************)
(* C9: no stream in an RPC service.                                        *)
(***************************************************************************)
RpcStreamDeclared ==
    \E k \in 1..Len(MethodsOf(ServiceRPC)) :
        StreamsAt(MethodsOf(ServiceRPC)[k].args) # {}
            \/ StreamsAt(MethodsOf(ServiceRPC)[k].returns) # {}

\* C9: a bag with a stream argument or a stream return in a method of an RPC
\* service is never accepted, Validate returning "stream is not allowed in
\* rpc service" when the checks before pass; and the generator gives every
\* method of every RPC service the type JSON to JSON.
C9_RpcJsonToJson ==
    /\ RpcStreamDeclared =>
          /\ ~Accepted
          /\ Returned /\ FirstError(<<VerdictCasing, VerdictNames, VerdictConsts,
                                      VerdictTypes, VerdictCodes>>) = ""
                => result = ErrRpcStream
    /\ \A i \in 1..Len(goServices) :
          goServices[i].type = ServiceRPC =>
              \A j \in 1..Len(goServices[i].methods) :
                  goServices[i].methods[j].type = MethodJsonToJson
    /\ pc = "generated" =>
          /\ Len(goServices) = Len(DeclaredServices)
          /\ \A i \in 1..Len(services) :
                \E k \in 1..Len(goServices) :
                    /\ goServices[k].name = services[i].name
                    /\ Len(goServices[k].methods) = Len(services[i].methods)

\* The generator has typed a method of an RPC service that has arguments and
\* returns.
C9_Witness ==
    /\ pc = "generated"
    /\ \E i \in 1..Len(goServices) :
          /\ goServices[i].type = ServiceRPC
          /\ Len(goServices[i].methods) > 0
    /\ \E k \in 1..Len(MethodsOf(ServiceRPC)) :
          /\ Len(MethodsOf(ServiceRPC)[k].args) >= 2
          /\ Len(MethodsOf(ServiceRPC)[k].returns) >= 1

(***************************************************************************)
(* C10: arrays of bytes in model fields.                                   *)
(***************************************************************************)
RECURSIVE ArrayOf(_, _)
ArrayOf(n, t) == IF n = 0 THEN t ELSE TArray(ArrayOf(n - 1, t))

\* []byte, [][]byte, ... up to the nesting the model's types reach.
ByteArrays == {ArrayOf(n, TByte) : n \in 1..MaxTypeDepth}

RECURSIVE ContainsByteArray(_)
ContainsByteArray(t) ==
    \/ t \in ByteArrays
    \/ t.kind = "Array" /\ ContainsByteArray(t.elem)
    \/ t.kind = "Map" /\ (ContainsByteArray(t.key) \/ ContainsByteArray(t.value))

FieldTypes ==
    UNION {{DeclaredModels[i].fields[j].type : j \in 1..Len(DeclaredModels[i].fields)} :
           i \in 1..Len(DeclaredModels)}

\* C10: a bag with a model field whose type is []byte, [][]byte, ... at any
\* nesting is never accepted, Validate returning "byte array is not allowed
\* in model fields" when the checks before pass; and that error is returned
\* for no bag whose field types contain no such array.
C10_ByteArrayRejected ==
    /\ FieldTypes \cap ByteArrays # {} =>
          /\ ~Accepted
          /\ pc # "http"
          /\ Returned /\ FirstError(<<VerdictCasing, VerdictNames, VerdictConsts,
                                      VerdictTypes, VerdictCodes, VerdictRpc>>) = ""
                => result = ErrByteArray
    /\ (\A t \in FieldTypes : ~ContainsByteArray(t)) => result # ErrByteArray

\* A field of type [][]byte or deeper, rejected.
C10_Witness ==
    /\ Returned
    /\ result = ErrByteArray
    /\ \E n \in 2..MaxTypeDepth : ArrayOf(n, TByte) \in FieldTypes

(***************************************************************************)
(* The pretty-printer and the parser.  A text is a sequence of atoms: the  *)
(* white space characters " " and "\n" one by one, and each punctuation    *)
(* mark or word whole.  Two texts are the same bytes exactly when they are *)
(* the same atoms.                                                         *)
(***************************************************************************)
IsSpace(a) == a \in {" ", "\n"}
Indent == <<" ", " ", " ", " ">>

\* strings.TrimSpace on the atoms of a comment.
RECURSIVE TrimLeft(_)
TrimLeft(v) == IF Len(v) > 0 /\ IsSpace(Head(v)) THEN TrimLeft(Tail(v)) ELSE v
RECURSIVE TrimRight(_)
TrimRight(v) ==
    IF Len(v) > 0 /\ IsSpace(v[Len(v)]) THEN TrimRight(SubSeq(v, 1, Len(v) - 1)) ELSE v
TrimSpace(v) == TrimRight(TrimLeft(v))

\* The scanner: white space is skipped, `#` opens a comment that runs to the
\* end of the line and whose value is the text after the `#`, every other
\* atom is one token, and EOF ends the stream.
Token(type, value) == [type |-> type, value |-> value]

TokenType(a) ==
    CASE a = "{" -> "OpenCurly"
      [] a = "}" -> "CloseCurly"
      [] a = "..." -> "Extend"
      [] a = ":" -> "Colon"
      [] a = "model" -> "Model"
      [] a = "string" -> "String"
      [] OTHER -> "Identifier"

EndOfLine(text, i) ==
    CHOOSE j \in i..(Len(text) + 1) :
        /\ j = Len(text) + 1 \/ text[j] = "\n"
        /\ \A k \in i..(j - 1) : text[k] # "\n"

RECURSIVE Lex(_, _)
Lex(text, i) ==
    IF i > Len(text) THEN <<Token("EOF", "")>>
    ELSE IF IsSpace(text[i]) THEN Lex(text, i + 1)
    ELSE IF text[i] = "#"
    THEN <<Token("Comment", SubSeq(text, i + 1, EndOfLine(text, i) - 1))>>
             \o Lex(text, EndOfLine(text, i))
    ELSE <<Token(TokenType(text[i]), text[i])>> \o Lex(text, i + 1)

\* AST nodes of the pretty-printer's model.
CommentTop == 0
CommentBottom == 1
Comment(tok) == [value |-> tok.value, position |-> CommentTop]
AtBottom(cs) == [k \in 1..Len(cs) |-> [cs[k] EXCEPT !.position = CommentBottom]]

\* The parser.  ts is the token stream, i the token Peek returns, pending
\* the parser's comments list.  Every Parse function returns whether it
\* failed, the stream position and comments list it leaves, and its node.
Failed(i) == [err |-> TRUE, i |-> i, pending |-> <<>>, node |-> <<>>]
Parsed(i, pending, node) == [err |-> FALSE, i |-> i, pending |-> pending, node |-> node]

ParseExtend(ts, i, pending) ==
    IF ts[i].type # "Extend" THEN Failed(i)
    ELSE IF ts[i + 1].type # "Identifier" THEN Failed(i + 1)
    ELSE IF ~IsPascal(ts[i + 1].value) THEN Failed(i + 1)
    ELSE Parsed(i + 2, pending, [name |-> ts[i + 1].value, comments |-> <<>>])

\* ParseType for the one type the texts of the model use.
ParseType(ts, i, pending) ==
    IF ts[i].type = "String" THEN Parsed(i + 1, pending, TString) ELSE Failed(i)

ParseModelField(ts, i, pending) ==
    IF ts[i].type # "Identifier" THEN Failed(i)
    ELSE IF ~IsPascal(ts[i].value) THEN Failed(i)
    ELSE IF ts[i + 1].type # "Colon" THEN Failed(i + 1)
    ELSE LET t == ParseType(ts, i + 2, pending)
         IN  IF t.err THEN t
             ELSE Parsed(t.i, <<>>,
                         [name |-> ts[i].value, type |-> t.node, comments |-> pending])

\* The loop of ParseModel after `{`.
RECURSIVE ParseModelItems(_, _, _, _)
ParseModelItems(ts, i, pending, model) ==
    IF ts[i].type = "CloseCurly"
    THEN Parsed(i + 1, <<>>,
                [model EXCEPT !.comments = model.comments \o AtBottom(pending)])
    ELSE IF ts[i].type = "Comment"
    THEN ParseModelItems(ts, i + 1, Append(pending, Comment(ts[i])), model)
    ELSE IF ts[i].type = "Extend"
    THEN LET e == ParseExtend(ts, i, pending)
         IN  IF e.err THEN e
             ELSE ParseModelItems(ts, e.i, <<>>,
                     [model EXCEPT !.extends =
                         Append(model.extends, [e.node EXCEPT !.comments = pending])])
    ELSE LET f == ParseModelField(ts, i, pending)
         IN  IF f.err THEN f
             ELSE ParseModelItems(ts, f.i, f.pending,
                     [model EXCEPT !.fields = Append(model.fields, f.node)])

ParseModel(ts, i, pending) ==
    IF ts[i].type # "Model" THEN Failed(i)
    ELSE IF ts[i + 1].type # "Identifier" THEN Failed(i + 1)
    ELSE IF ~IsPascal(ts[i + 1].value) THEN Failed(i + 1)
    ELSE IF ts[i + 2].type # "OpenCurly" THEN Failed(i + 2)
    ELSE ParseModelItems(ts, i + 3, <<>>,
             [name |-> ts[i + 1].value, extends |-> <<>>, fields |-> <<>>,
              comments |-> pending])

\* The loop of ParseDocument.
RECURSIVE ParseDocumentItems(_, _, _, _)
ParseDocumentItems(ts, i, pending, doc) ==
    IF ts[i].type = "EOF"
    THEN Parsed(i, <<>>, [doc EXCEPT !.comments = doc.comments \o pending])
    ELSE IF ts[i].type = "Comment"
    THEN ParseDocumentItems(ts, i + 1, Append(pending, Comment(ts[i])), doc)
    ELSE IF ts[i].type = "Model"
    THEN LET m == ParseModel(ts, i, pending)
         IN  IF m.err THEN m
             ELSE ParseDocumentItems(ts, m.i, m.pending,
                     [doc EXCEPT !.models = Append(doc.models, m.node)])
    ELSE Failed(i)

ParseDocument(text) ==
    ParseDocumentItems(Lex(text, 1), 1, <<>>, [models |-> <<>>, comments |-> <<>>])

\* The Format methods, each giving the text it writes.
CommentFormat(c) == <<"#", " ">> \o TrimSpace(c.value)

ExtendFormat(e) ==
    FlatMap(LAMBDA c : <<"\n">> \o Indent \o CommentFormat(c), e.comments)
        \o Indent \o <<"...", e.name>>

StringFormat == <<"string">>

FieldFormat(f) ==
    Concat([k \in 1..Len(f.comments) |->
               (IF k # 1 THEN <<"\n">> ELSE <<>>) \o Indent \o CommentFormat(f.comments[k])])
        \o (IF Len(f.comments) > 0 THEN <<"\n">> ELSE <<>>)
        \o Indent \o <<f.name, ":", " ">> \o StringFormat

ModelFormat(m) ==
    FlatMap(LAMBDA c : IF c.position # CommentTop THEN <<>>
                       ELSE CommentFormat(c) \o <<"\n">>,
            m.comments)
        \o <<"model", " ", m.name, " ", "{">>
        \o FlatMap(LAMBDA e : <<"\n">> \o ExtendFormat(e), m.extends)
        \o FlatMap(LAMBDA f : <<"\n">> \o FieldFormat(f), m.fields)
        \o FlatMap(LAMBDA c : IF c.position # CommentBottom THEN <<>>
                              ELSE <<"\n">> \o Indent \o CommentFormat(c),
                   m.comments)
        \o <<"\n", "}">>

\* Document.Format of a document that holds models and comments only: the
\* new line before the comments is written after consts, enums, services or
\* errors, which it has none of.
DocumentFormat(d) ==
    Concat([k \in 1..Len(d.models) |->
               (IF k # 1 THEN <<"\n", "\n">> ELSE <<>>) \o ModelFormat(d.models[k])])
        \o Concat([k \in 1..Len(d.comments) |->
                      (IF k # 1 THEN <<"\n">> ELSE <<>>) \o CommentFormat(d.comments[k])])

(***************************************************************************)
(* A run of the pretty-printer twice over: parse the source, format the    *)
(* document, parse what was written, format again.                         *)
(***************************************************************************)
Parse1 ==
    /\ fpc = "parse1"
    /\ LET r == ParseDocument(src)
       IN  IF r.err THEN fpc' = "rejected" /\ doc1' = doc1
           ELSE fpc' = "format1" /\ doc1' = r.node
    /\ UNCHANGED <<src, out1, doc2, out2, otherThanFormat>>

Format1 ==
    /\ fpc = "format1"
    /\ out1' = DocumentFormat(doc1)
    /\ fpc' = "parse2"
    /\ UNCHANGED <<src, doc1, doc2, out2, otherThanFormat>>

Parse2 ==
    /\ fpc = "parse2"
    /\ LET r == ParseDocument(out1)
       IN  IF r.err THEN fpc' = "rejected2" /\ doc2' = doc2
           ELSE fpc' = "format2" /\ doc2' = r.node
    /\ UNCHANGED <<src, doc1, out1, out2, otherThanFormat>>

Format2 ==
    /\ fpc = "format2"
    /\ out2' = DocumentFormat(doc2)
    /\ fpc' = "done"
    /\ UNCHANGED <<src, doc1, out1, doc2, otherThanFormat>>

NextFormat ==
    \/ Parse1
    \/ Format1
    \/ Parse2
    \/ Format2

(***************************************************************************)
(* The sources the pretty-printer is run on.                               *)
(***************************************************************************)
MaxItems == 3

\* What a line between the braces of a model holds: a comment, an extend, a
\* field, or an extend of a name that is not in Pascal case.
ItemTexts ==
    {<<"#", " ", "c", " ">>, <<"...", "B">>, <<"F", ":", "string">>, <<"...", "lower">>}

LineText(item) == <<" ">> \o item \o <<"\n">>

ModelText(name, items) ==
    <<"model", " ", name, "{", "\n">> \o FlatMap(LineText, items) \o <<"}", "\n">>

\* A comment or nothing, model M with any lines, model N or nothing, a
\* comment or nothing.
FormatInputs ==
    {(IF top THEN <<"#", "c", "\n">> ELSE <<>>)
        \o ModelText("M", items)
        \o (IF second THEN ModelText("N", <<>>) ELSE <<>>)
        \o (IF tail THEN <<"#", "c", "\n">> ELSE <<>>) :
        top \in BOOLEAN, items \in SeqsUpTo(ItemTexts, MaxItems),
        second \in BOOLEAN, tail \in BOOLEAN}

InitFormat ==
    /\ src \in FormatInputs
    /\ doc1 = <<>>
    /\ out1 = <<>>
    /\ doc2 = <<>>
    /\ out2 = <<>>
    /\ fpc = "parse1"
    /\ IdleValidate
    /\ IdleEnum
    /\ IdleTag
    /\ IdleLiteral
    /\ IdleHandOff
    /\ IdleParse
    /\ IdleRetry
    /\ IdleReceive
    /\ IdleSse
    /\ IdleMessage
    /\ IdlePusher

SpecFormat == InitFormat /\ [][NextFormat]_vars

(***************************************************************************)
(* C1: formatting twice.                                                   *)
(***************************************************************************)
\* C1 as stated: what the pretty-printer writes for a source that parses can
\* be parsed again, and formatting that gives the same text once more.
C1_FormatIdempotent ==
    /\ fpc # "rejected2"
    /\ fpc = "done" => out2 = out1

(***************************************************************************)
(* C11: Validate called again on the bag it has validated.                 *)
(***************************************************************************)
\* The call before the current one returned nil.
AfterSuccess == call > 1 /\ past[call - 1] = ""

\* C11: once a call of Validate on a bag has returned nil, the next call on
\* the bag as that call left it returns nil too and at no point changes a
\* node of the documents: every constant value, option value and error code
\* is what the first call made it.
C11_ValidateIdempotent ==
    AfterSuccess =>
        /\ bag = before
        /\ ~Crashed
        /\ Returned => result = ""

\* A second call has returned on a bag the first call had written to.
C11_Witness ==
    /\ AfterSuccess
    /\ pc = "returned"
    /\ result = ""
    /\ before # docs

(***************************************************************************)
(* C12: the codes Validate assigns and the order of the documents.         *)
(***************************************************************************)
\* The documents in the order p: document p[i] is given i-th.
InOrder(ds, p) == [i \in 1..Len(ds) |-> ds[p[i]]]

\* The codes of the errors of each document, in the order of declaration.
CodesOf(ds) ==
    [k \in 1..Len(ds) |-> [i \in 1..Len(ds[k].errors) |-> ds[k].errors[i].code]]

\* What the merge, the sort and the two loops over the custom errors can
\* leave in the documents ds.
CodesAssignedTo(ds) ==
    LET es == FlatMap(LAMBDA d : d.errors, ds)
    IN  {CodesOf(store(ds,
                       FlatMap(LAMBDA d : d.consts, ds),
                       FlatMap(LAMBDA d : d.models, ds),
                       FlatMap(LAMBDA d : d.services, ds),
                       Unsorted(assignCodes(Permuted(es, q)).errors, q))) :
            q \in sortOrders(es)}

\* C12 as stated: when Validate has accepted the documents as parsed, then
\* whatever order the same documents are given in, every error of every
\* document is left with the code this call gave it.
C12_CodesOrderIndependent ==
    call = 1 /\ Accepted =>
        \A p \in IndexOrders(Len(docs)) :
            \A codes \in CodesAssignedTo(InOrder(docs, p)) :
                \A i \in 1..Len(docs) : codes[i] = CodesOf(bag)[p[i]]

(***************************************************************************)
(* C13: what a call of Validate may change in the documents.               *)
(***************************************************************************)
\* A value is as it was, or was a Variable and is now the literal its chain
\* of references ended in.
ValueKept(old, new) ==
    \/ new = old
    \/ old.kind = "Variable" /\ new.kind # "Variable" /\ new = ResolveValue(old)

\* A node holding a value is as it was but for that value.
ValueNodeKept(old, new) ==
    new = [old EXCEPT !.value = new.value] /\ ValueKept(old.value, new.value)

ValueNodesKept(olds, news) ==
    Len(news) = Len(olds) /\ \A i \in 1..Len(olds) : ValueNodeKept(olds[i], news[i])

\* A field or method is as it was but for the values of its options.
CarrierKept(old, new) ==
    new = [old EXCEPT !.options = new.options]
        /\ ValueNodesKept(old.options, new.options)

CarriersKept(olds, news) ==
    Len(news) = Len(olds) /\ \A i \in 1..Len(olds) : CarrierKept(olds[i], news[i])

ModelKept(old, new) ==
    new = [old EXCEPT !.fields = new.fields] /\ CarriersKept(old.fields, new.fields)

ServiceKept(old, new) ==
    new = [old EXCEPT !.methods = new.methods]
        /\ CarriersKept(old.methods, new.methods)

\* A custom error is as it was, or had Code 0 and has a code now.
ErrorKept(old, new) ==
    \/ new = old
    \/ old.code = 0 /\ new = [old EXCEPT !.code = new.code]

DocumentKept(old, new) ==
    /\ new.enums = old.enums
    /\ ValueNodesKept(old.consts, new.consts)
    /\ Len(new.models) = Len(old.models)
    /\ \A i \in 1..Len(old.models) : ModelKept(old.models[i], new.models[i])
    /\ Len(new.services) = Len(old.services)
    /\ \A i \in 1..Len(old.services) : ServiceKept(old.services[i], new.services[i])
    /\ Len(new.errors) = Len(old.errors)
    /\ \A i \in 1..Len(old.errors) : ErrorKept(old.errors[i], new.errors[i])

\* C13: at every point of every call of Validate, returned nil or an error
\* or not yet returned, the documents are as the call found them - the same
\* documents with the same declarations in the same order, every name, type,
\* stream flag, enum member and explicit code as it was - but for constant
\* and option values that were Variables and now hold the literal the
\* reference led to, and the codes of custom errors whose Code was 0.
C13_OnlyValuesAndCodesChange ==
    /\ Len(bag) = Len(before)
    /\ \A k \in 1..Len(before) : DocumentKept(before[k], bag[k])

\* A call has returned having numbered an error of a bag whose errors are
\* not declared in the order of their names.
C13_Witness ==
    /\ pc = "returned"
    /\ \E k \in 1..Len(bag) : \E i \in 1..Len(bag[k].errors) :
          bag[k].errors[i].code # before[k].errors[i].code
    /\ \E i, j \in 1..Len(DeclaredErrors) :
          i < j /\ NameLess(DeclaredErrors[j].name, DeclaredErrors[i].name)

(***************************************************************************)
(* 64-bit integers.  An int64 is its two's complement bits, here eight     *)
(* digits of base 256 with the lowest first; a number too large for an     *)
(* int64 has more digits.  Texts of decimal digits are sequences of the    *)
(* digits 0..9 with the highest first.                                     *)
(***************************************************************************)
Zeros(n) == [i \in 1..n |-> 0]

\* The n lowest base-256 digits of the natural number x.
RECURSIVE Digits256(_, _)
Digits256(x, n) ==
    IF n = 0 THEN <<>> ELSE <<x % 256>> \o Digits256(x \div 256, n - 1)

Int64Of(x) == Digits256(x, 8)

\* a * m + c on the digits of a, the carry out of the highest digit dropped.
RECURSIVE MulAdd(_, _, _)
MulAdd(a, m, c) ==
    IF Len(a) = 0 THEN <<>>
    ELSE <<(a[1] * m + c) % 256>> \o MulAdd(Tail(a), m, (a[1] * m + c) \div 256)

\* a + b + c on as many digits as a has.
RECURSIVE AddDigits(_, _, _)
AddDigits(a, b, c) ==
    IF Len(a) = 0 THEN <<>>
    ELSE <<(a[1] + b[1] + c) % 256>>
             \o AddDigits(Tail(a), Tail(b), (a[1] + b[1] + c) \div 256)

\* a * b on as many digits as a has: on eight digits the product of two
\* int64 as Go computes it, wrapping around.
RECURSIVE MulDigits(_, _)
MulDigits(a, b) ==
    IF Len(a) = 0 THEN <<>>
    ELSE IF Len(b) = 0 THEN Zeros(Len(a))
    ELSE AddDigits(MulAdd(a, b[1], 0),
                   <<0>> \o MulDigits(SubSeq(a, 1, Len(a) - 1), Tail(b)),
                   0)

\* a divided by the small number d: quotient and remainder.
RECURSIVE DivRem(_, _)
DivRem(a, d) ==
    IF Len(a) = 0 THEN [q |-> <<>>, r |-> 0]
    ELSE LET hi == DivRem(Tail(a), d)
             cur == hi.r * 256 + a[1]
         IN  [q |-> <<cur \div d>> \o hi.q, r |-> cur % d]

IsZero(a) == \A i \in 1..Len(a) : a[i] = 0

\* An int64 is negative when its highest bit is set.
IsNegative(a) == a[Len(a)] >= 128

\* -a in two's complement.
Negate(a) == MulAdd([i \in 1..Len(a) |-> 255 - a[i]], 1, 1)

\* a < b, both read as natural numbers of the same number of digits.
RECURSIVE LessDigits(_, _)
LessDigits(a, b) ==
    IF Len(a) = 0 THEN FALSE
    ELSE IF a[Len(a)] # b[Len(b)] THEN a[Len(a)] < b[Len(b)]
    ELSE LessDigits(SubSeq(a, 1, Len(a) - 1), SubSeq(b, 1, Len(b) - 1))

\* a < b and a <= b on int64.
Less64(a, b) ==
    IF IsNegative(a) # IsNegative(b) THEN IsNegative(a) ELSE LessDigits(a, b)
LessEq64(a, b) == a = b \/ Less64(a, b)

min64(a, b) == IF Less64(b, a) THEN b ELSE a
max64(a, b) == IF Less64(a, b) THEN b ELSE a

\* x + 1 on an int64: Go wraps around.
Incr64(a) == MulAdd(a, 1, 1)

\* The decimal digits of a natural number, none for 0.
RECURSIVE Decimals(_)
Decimals(a) ==
    IF IsZero(a) THEN <<>>
    ELSE Decimals(DivRem(a, 10).q) \o <<DivRem(a, 10).r>>

\* A natural number in decimal.
FormatNat(a) == IF IsZero(a) THEN <<0>> ELSE Decimals(a)

\* The characters of a text of decimal digits, and the digits of the
\* characters.
DigitChars == <<"0", "1", "2", "3", "4", "5", "6", "7", "8", "9">>
TextOf(ds) == [i \in 1..Len(ds) |-> DigitChars[ds[i] + 1]]
DigitsOf(text) ==
    [i \in 1..Len(text) |-> CHOOSE d \in 0..9 : DigitChars[d + 1] = text[i]]

\* strconv.FormatInt(v, 10) and fmt's %d of an int64.
FormatInt(a) ==
    IF IsNegative(a) THEN <<"-">> \o TextOf(FormatNat(Negate(a)))
    ELSE TextOf(FormatNat(a))

\* The natural number a text of decimal digits stands for, on n digits of
\* base 256 (n large enough to hold it).
RECURSIVE NatOf(_, _)
NatOf(text, n) ==
    IF Len(text) = 0 THEN Zeros(n)
    ELSE MulAdd(NatOf(SubSeq(text, 1, Len(text) - 1), n), 10, text[Len(text)])

\* strconv.ParseInt(text, 10, 64) of a text of digits: the value, or an
\* error when it is out of the range of an int64.  The value so far is kept
\* on nine digits, which hold ten times an int64 and a digit more.
RECURSIVE ParseInt(_)
ParseInt(text) ==
    IF Len(text) = 0 THEN [err |-> FALSE, value |-> Zeros(8)]
    ELSE LET r == ParseInt(SubSeq(text, 1, Len(text) - 1))
             v == MulAdd(r.value \o <<0>>, 10, text[Len(text)])
         IN  IF r.err \/ v[9] # 0 \/ v[8] >= 128
             THEN [err |-> TRUE, value |-> Zeros(8)]
             ELSE [err |-> FALSE, value |-> SubSeq(v, 1, 8)]

(***************************************************************************)
(* ParseEnum.  The parser is given the tokens of one enum declaration; a   *)
(* ConstInt token holds the text of its digits.  Peek is the token at i,   *)
(* Next moves past it.                                                     *)
(***************************************************************************)
EnumFailed(msg) == [err |-> msg, i |-> 0, node |-> <<>>]
EnumParsed(i, node) == [err |-> "", i |-> i, node |-> node]

\* One member: a name, or a name, '=' and an integer.
EnumSet(ts, i) ==
    IF ts[i].type # "Identifier" THEN EnumFailed("expected identifier")
    ELSE IF ts[i].value # "_" /\ ~IsPascal(ts[i].value)
    THEN EnumFailed("enum's set name must be in Pascal Case format")
    ELSE IF ts[i + 1].type # "Assign"
    THEN EnumParsed(i + 1, [name |-> ts[i].value, value |-> Int64Of(0),
                            defined |-> FALSE])
    ELSE IF ts[i + 2].type # "ConstInt"
    THEN EnumFailed("expected constant integer value")
    ELSE IF ParseInt(ts[i + 2].value).err THEN EnumFailed("invalid integer value")
    ELSE EnumParsed(i + 3, [name |-> ts[i].value,
                            value |-> ParseInt(ts[i + 2].value).value,
                            defined |-> TRUE])

\* The loop over the members up to the closing brace, for a body that holds
\* members only; EnumStep has the iteration on any other token.
RECURSIVE EnumSets(_, _, _)
EnumSets(ts, i, sets) ==
    IF ts[i].type = "CloseCurly" THEN EnumParsed(i + 1, sets)
    ELSE LET r == EnumSet(ts, i)
         IN  IF r.err # "" THEN r ELSE EnumSets(ts, r.i, Append(sets, r.node))

\* getIntSize.
UpTo8 == Int64Of(127)
UpTo16 == Int64Of(32767)
UpTo32 == Int64Of(2147483647)
DownTo(a) == Negate(Incr64(a))

getIntSize(min, max) ==
    IF LessEq64(DownTo(UpTo8), min) /\ LessEq64(max, UpTo8) THEN 8
    ELSE IF LessEq64(DownTo(UpTo16), min) /\ LessEq64(max, UpTo16) THEN 16
    ELSE IF LessEq64(DownTo(UpTo32), min) /\ LessEq64(max, UpTo32) THEN 32
    ELSE 64

\* The numbering with the counter left alone by a member written with a
\* value.
RECURSIVE numberSetsCounting(_, _, _, _, _)
numberSetsCounting(sets, k, next, minV, maxV) ==
    IF k > Len(sets) THEN [sets |-> sets, minV |-> minV, maxV |-> maxV]
    ELSE IF sets[k].defined
    THEN numberSetsCounting(sets, k + 1, Incr64(next), minV, maxV)
    ELSE numberSetsCounting([sets EXCEPT ![k].value = next], k + 1, Incr64(next),
                            min64(minV, next), max64(maxV, next))

\* The loop that numbers the members: the sets from k on, with the counter
\* and the least and greatest value so far.
RECURSIVE numberSets(_, _, _, _, _)
numberSets(sets, k, next, minV, maxV) ==
    IF k > Len(sets) THEN [sets |-> sets, minV |-> minV, maxV |-> maxV]
    ELSE IF sets[k].defined
    THEN numberSets(sets, k + 1, Incr64(sets[k].value), minV, maxV)
    ELSE numberSets([sets EXCEPT ![k].value = next], k + 1, Incr64(next),
                    min64(minV, next), max64(maxV, next))

ParseEnum(ts) ==
    IF ts[1].type # "Enum" THEN EnumFailed("expected 'enum' keyword")
    ELSE IF ts[2].type # "Identifier" THEN EnumFailed("expected identifier")
    ELSE IF ~IsPascal(ts[2].value)
    THEN EnumFailed("enum name must be in Pascal Case format")
    ELSE IF ts[3].type # "OpenCurly" THEN EnumFailed("expected '{'")
    ELSE LET r == EnumSets(ts, 4, <<>>)
             n == numberSets(r.node, 1, Int64Of(0), Int64Of(0), Int64Of(0))
         IN  IF r.err # "" THEN r
             ELSE EnumParsed(r.i, [name |-> ts[2].value,
                                   size |-> getIntSize(n.minV, n.maxV),
                                   sets |-> n.sets])

RunParseEnum ==
    /\ epc = "parse"
    /\ enumOut' = ParseEnum(enumTokens)
    /\ epc' = "done"
    /\ UNCHANGED <<enumTokens, otherThanEnum>>

NextEnum == RunParseEnum

(***************************************************************************)
(* The enum declarations ParseEnum is run on.                              *)
(***************************************************************************)
MaxSets == 3

\* The integers written in a member: around the limits of the sizes, the
\* greatest int64, and the number after it.
IntTexts ==
    {<<0>>, <<5>>, <<1, 2, 7>>, <<1, 2, 8>>, <<3, 2, 7, 6, 7>>, <<3, 2, 7, 6, 8>>,
     <<2, 1, 4, 7, 4, 8, 3, 6, 4, 7>>, <<2, 1, 4, 7, 4, 8, 3, 6, 4, 8>>,
     <<9, 2, 2, 3, 3, 7, 2, 0, 3, 6, 8, 5, 4, 7, 7, 5, 8, 0, 7>>,
     <<9, 2, 2, 3, 3, 7, 2, 0, 3, 6, 8, 5, 4, 7, 7, 5, 8, 0, 8>>}

\* A member named A, the placeholder, a name not in Pascal case, or A with
\* an integer.  ParseEnum does not look for members of the same name.
SetTokens ==
    {<<Token("Identifier", "A")>>, <<Token("Identifier", "_")>>,
     <<Token("Identifier", "lower")>>}
        \cup {<<Token("Identifier", "A"), Token("Assign", "="), Token("ConstInt", t)>> :
                t \in IntTexts}

EnumInputs ==
    {<<Token("Enum", "enum"), Token("Identifier", "E"), Token("OpenCurly", "{")>>
        \o Concat(members)
        \o <<Token("CloseCurly", "}"), Token("EOF", "")>> :
        members \in SeqsUpTo(SetTokens, MaxSets)}

InitEnum ==
    /\ enumTokens \in EnumInputs
    /\ enumOut = <<>>
    /\ epc = "parse"
    /\ IdleValidate
    /\ IdleFormat
    /\ IdleTag
    /\ IdleLiteral
    /\ IdleHandOff
    /\ IdleParse
    /\ IdleRetry
    /\ IdleReceive
    /\ IdleSse
    /\ IdleMessage
    /\ IdlePusher

SpecEnum == InitEnum /\ [][NextEnum]_vars

(***************************************************************************)
(* C14 and C15: the size and the numbering of a parsed enum.               *)
(***************************************************************************)
EnumDone == epc = "done" /\ enumOut.err = ""
ParsedSets == enumOut.node.sets
SetValues == {ParsedSets[k].value : k \in 1..Len(ParsedSets)}
LeastValue == CHOOSE v \in SetValues : \A w \in SetValues : LessEq64(v, w)
GreatestValue == CHOOSE v \in SetValues : \A w \in SetValues : LessEq64(w, v)

\* The member tokens of the declaration, member by member.
DeclaredSets == EnumSets(enumTokens, 4, <<>>).node

\* C14 as stated: the size of a parsed enum with members is getIntSize of
\* the least and the greatest of all its members' values, written or
\* numbered, so that every value fits in the signed integers of that size.
C14_SizeCoversAllValues ==
    EnumDone /\ Len(ParsedSets) > 0 =>
        /\ enumOut.node.size = getIntSize(LeastValue, GreatestValue)
        /\ \A v \in SetValues : getIntSize(v, v) <= enumOut.node.size

\* The last member of d before the k-th that is written with a value, 0 if
\* none.
LastExplicitBefore(d, k) ==
    IF \E j \in 1..(k - 1) : d[j].defined
    THEN CHOOSE j \in 1..(k - 1) :
             d[j].defined /\ \A l \in (j + 1)..(k - 1) : ~d[l].defined
    ELSE 0

\* What the counter started from for the k-th member of d, and how many
\* members it has been counted on since.
CountedFrom(d, k) ==
    IF LastExplicitBefore(d, k) = 0 THEN Int64Of(0)
    ELSE d[LastExplicitBefore(d, k)].value
CountedOn(d, k) ==
    IF LastExplicitBefore(d, k) = 0 THEN k - 1 ELSE k - LastExplicitBefore(d, k)

RECURSIVE Incr64Times(_, _)
Incr64Times(a, n) == IF n = 0 THEN a ELSE Incr64(Incr64Times(a, n - 1))

\* The members p of the parsed enum are those of the declaration, d, in
\* order, and the ones written with a value hold it.
MembersKept(d, p) ==
    /\ Len(p) = Len(d)
    /\ \A k \in 1..Len(p) :
          /\ p[k].name = d[k].name
          /\ p[k].defined = d[k].defined
          /\ p[k].defined => p[k].value = d[k].value

\* C15 as stated: a member without a value, the placeholder included, holds
\* the number of members before it when none of them is written with a
\* value, and else v plus the number of members since the last one written
\* with a value, v being that value: 0, 1, 2, ... and v + 1, v + 2, ...
C15_NumberedInOrder ==
    EnumDone =>
        LET d == DeclaredSets
            p == ParsedSets
        IN  /\ MembersKept(d, p)
            /\ \A k \in 1..Len(p) :
                  ~p[k].defined =>
                      /\ ~IsNegative(p[k].value)
                      /\ p[k].value \o <<0>>
                            = MulAdd(CountedFrom(d, k) \o <<0>>, 1, CountedOn(d, k))

\* C15 amended: the same with the counter a 64-bit integer that wraps
\* around: a member without a value that follows, n members on, a member
\* written with v holds v + n when that is at most 9223372036854775807 and
\* v + n - 2^64 otherwise (-9223372036854775808 right after the greatest
\* int64).
C15_NumberedInOrderWrapping ==
    EnumDone =>
        LET d == DeclaredSets
            p == ParsedSets
        IN  /\ MembersKept(d, p)
            /\ \A k \in 1..Len(p) :
                  ~p[k].defined =>
                      p[k].value = Incr64Times(CountedFrom(d, k), CountedOn(d, k))

\* An enum with a placeholder numbered after a member written with a value
\* other than 0.
C15_Witness ==
    /\ EnumDone
    /\ LET d == DeclaredSets
           p == ParsedSets
       IN  \E k \in 1..Len(p) :
              /\ p[k].name = "_"
              /\ LastExplicitBefore(d, k) # 0
              /\ CountedFrom(d, k) # Int64Of(0)
              /\ p[k].value = Incr64Times(CountedFrom(d, k), CountedOn(d, k))

(***************************************************************************)
(* C16: the shape the Go back-end gives a method.                          *)
(***************************************************************************)
HasStream(ps) == \E i \in 1..Len(ps) : ps[i].stream
TheStream(ps) == ps[CHOOSE i \in 1..Len(ps) : ps[i].stream]

\* The classification table: a method is an upload when it has a stream
\* argument, and answers with JSON without a stream return, with BINARY when
\* the stream return is a []byte and with SSE when it is of another type.
Shape(m) ==
    [upload |-> HasStream(m.args),
     response |-> IF ~HasStream(m.returns) THEN "JSON"
                  ELSE IF TheStream(m.returns).type = TArray(TByte) THEN "BINARY"
                  ELSE "SSE"]

\* The shape a method type of the Go back-end stands for.
ShapeOfType(type) ==
    CASE type = MethodJsonToJson -> [upload |-> FALSE, response |-> "JSON"]
      [] type = MethodJsonToSSE -> [upload |-> FALSE, response |-> "SSE"]
      [] type = MethodJsonToBinary -> [upload |-> FALSE, response |-> "BINARY"]
      [] type = MethodBinaryToJson -> [upload |-> TRUE, response |-> "JSON"]
      [] type = MethodBinaryToSSE -> [upload |-> TRUE, response |-> "SSE"]
      [] type = MethodBinaryToBinary -> [upload |-> TRUE, response |-> "BINARY"]

\* The service the Go back-end made of the service named n.
GoServiceNamed(n) == goServices[CHOOSE k \in 1..Len(goServices) : goServices[k].name = n]

\* C16: once the Go back-end has run on a validated bag, every method of
\* every service has one of the six method types, the one of the table for
\* its stream argument, of whatever type, and its stream return.
C16_GoMethodShape ==
    pc = "generated" =>
        \A i \in 1..Len(services) :
            /\ \E k \in 1..Len(goServices) : goServices[k].name = services[i].name
            /\ Len(GoServiceNamed(services[i].name).methods) = Len(services[i].methods)
            /\ \A j \in 1..Len(services[i].methods) :
                  LET type == GoServiceNamed(services[i].name).methods[j].type
                  IN  /\ type \in MethodJsonToJson..MethodBinaryToBinary
                      /\ ShapeOfType(type) = Shape(services[i].methods[j])

\* The Go back-end has classified a method with a stream argument that is
\* not a []byte and a stream return that is one, next to other returns.
C16_Witness ==
    /\ pc = "generated"
    /\ \E i \in 1..Len(services) : \E j \in 1..Len(services[i].methods) :
          LET m == services[i].methods[j]
          IN  /\ HasStream(m.args)
              /\ TheStream(m.args).type = TString
              /\ HasStream(m.returns)
              /\ TheStream(m.returns).type = TArray(TByte)
              /\ Len(m.returns) > 1
              /\ GoServiceNamed(services[i].name).methods[j].type = MethodBinaryToBinary

(***************************************************************************)
(* C17: the shape the TypeScript back-end gives an HTTP method.            *)
(***************************************************************************)
\* The shape the request and response types of the TypeScript back-end
\* stand for.
ShapeOfTs(m) ==
    [upload |-> m.reqType = "FILE_UPLOAD",
     response |-> CASE m.respType = "JSON" -> "JSON"
                    [] m.respType = "BLOB" -> "BINARY"
                    [] m.respType = "SSE" -> "SSE"]

TsServiceNamed(n) == tsServices[CHOOSE k \in 1..Len(tsServices) : tsServices[k].name = n]

\* C17 as stated: once the TypeScript back-end has run on a validated bag,
\* every method of every HTTP service has the request and response type of
\* the table, the shape the Go back-end gives it: an upload exactly when it
\* has a stream argument, of whatever type.
C17_TsMethodShape ==
    pc = "generatedTs" =>
        \A i \in 1..Len(services) :
            services[i].type = ServiceHTTP =>
                /\ \E k \in 1..Len(tsServices) : tsServices[k].name = services[i].name
                /\ \A j \in 1..Len(services[i].methods) :
                      /\ ShapeOfTs(TsServiceNamed(services[i].name).methods[j])
                            = Shape(services[i].methods[j])
                      /\ ShapeOfTs(TsServiceNamed(services[i].name).methods[j])
                            = ShapeOfType(GoMethod(services[i], services[i].methods[j],
                                                   models).type)

(***************************************************************************)
(* The Go back-end's JSON tag of a model field (getGolangModelFieldTag).   *)
(* Names and tags are strings, written as sequences of characters.         *)
(***************************************************************************)
UpperLetters ==
    <<"A", "B", "C", "D", "E", "F", "G", "H", "I", "J", "K", "L", "M",
      "N", "O", "P", "Q", "R", "S", "T", "U", "V", "W", "X", "Y", "Z">>
LowerLetters ==
    <<"a", "b", "c", "d", "e", "f", "g", "h", "i", "j", "k", "l", "m",
      "n", "o", "p", "q", "r", "s", "t", "u", "v", "w", "x", "y", "z">>

ToLowerChar(c) ==
    IF \E i \in 1..Len(UpperLetters) : UpperLetters[i] = c
    THEN LowerLetters[CHOOSE i \in 1..Len(UpperLetters) : UpperLetters[i] = c]
    ELSE c

\* strings.ToLower.
ToLower(text) == [i \in 1..Len(text) |-> ToLowerChar(text[i])]

\* strcase.ToCamel: the camelCase form of a PascalCase name.
ToCamel(text) ==
    IF text = <<>> THEN text ELSE <<ToLowerChar(text[1])>> \o Tail(text)

TextJson == <<"j", "s", "o", "n">>
TextJsonOmitEmpty == TextJson \o <<"o", "m", "i", "t", "e", "m", "p", "t", "y">>
TextDash == <<"-">>
TextOmitEmpty == <<",", "o", "m", "i", "t", "e", "m", "p", "t", "y">>
TextOmitZero == <<",", "o", "m", "i", "t", "z", "e", "r", "o">>
TextTagOpen == TextJson \o <<":", "\"">>
TextTagClose == <<"\"">>

\* A string literal; its text is in the token (ast.ValueString).
ValueString(text) == [kind |-> "String", name |-> text, v |-> 0]

TagField(n, optional, opts) == [name |-> n, isOptional |-> optional, options |-> opts]

\* mapper[key] after the loop over the options: the value of the last option
\* whose lower-cased name is the key; ok tells whether there is one.
mapperAt(opts, key) ==
    LET at == {i \in 1..Len(opts) : ToLower(opts[i].name) = key}
    IN  IF at = {} THEN [ok |-> FALSE, value |-> ValueBool(FALSE)]
        ELSE [ok |-> TRUE, value |-> opts[CHOOSE i \in at : \A j \in at : j <= i].value]

getGolangModelFieldTag(f) ==
    LET json == mapperAt(f.options, TextJson)
        omit == mapperAt(f.options, TextJsonOmitEmpty)
        named ==
            IF json.ok /\ json.value.kind = "String" THEN json.value.name
            ELSE IF json.ok /\ json.value = ValueBool(FALSE) THEN TextDash
            ELSE ToCamel(f.name)
        flagged ==
            IF omit.ok /\ named # TextDash /\ omit.value = ValueBool(TRUE)
            THEN named \o TextOmitEmpty
            ELSE named
        jsonTagValue ==
            IF f.isOptional
            THEN (IF ~omit.ok THEN flagged \o TextOmitEmpty ELSE flagged) \o TextOmitZero
            ELSE flagged
    IN  TextTagOpen \o jsonTagValue \o TextTagClose

RunFieldTag ==
    /\ tagPc = "tag"
    /\ tagOut' = getGolangModelFieldTag(tagField)
    /\ tagPc' = "done"
    /\ UNCHANGED <<tagField, otherThanTag>>

NextTag == RunFieldTag

(***************************************************************************)
(* The model fields the tag is computed for.                               *)
(***************************************************************************)
MaxOptions == 2

FieldTexts == {<<"N", "a", "m", "e">>, <<"U", "s", "e", "r", "I", "d">>}

\* Json with a string, the sentinel as a string, true or false; the same
\* option written JSON; JsonOmitEmpty true or false; an option of another
\* name.
TagOptions ==
    {Option(<<"J", "s", "o", "n">>, val) :
        val \in {ValueString(<<"f", "o", "o">>), ValueString(TextDash),
                 ValueBool(TRUE), ValueBool(FALSE)}}
    \cup {Option(<<"J", "S", "O", "N">>, ValueBool(FALSE))}
    \cup {Option(<<"J", "s", "o", "n", "O", "m", "i", "t", "E", "m", "p", "t", "y">>,
                 ValueBool(b)) : b \in BOOLEAN}
    \cup {Option(<<"X", "m", "l">>, ValueBool(TRUE))}

TagInputs ==
    {TagField(n, optional, opts) :
        n \in FieldTexts, optional \in BOOLEAN, opts \in SeqsUpTo(TagOptions, MaxOptions)}

InitTag ==
    /\ tagField \in TagInputs
    /\ tagOut = <<>>
    /\ tagPc = "tag"
    /\ IdleValidate
    /\ IdleFormat
    /\ IdleEnum
    /\ IdleLiteral
    /\ IdleHandOff
    /\ IdleParse
    /\ IdleRetry
    /\ IdleReceive
    /\ IdleSse
    /\ IdleMessage
    /\ IdlePusher

SpecTag == InitTag /\ [][NextTag]_vars

(***************************************************************************)
(* C18: the tag of a field against the option rules.                       *)
(***************************************************************************)
TagDone == tagPc = "done"

\* The options the rules speak of: the field's Json and JsonOmitEmpty.
JsonOption == mapperAt(tagField.options, TextJson)
OmitOption == mapperAt(tagField.options, TextJsonOmitEmpty)

\* The key the rules give the field.
RuledKey ==
    IF JsonOption.ok /\ JsonOption.value.kind = "String" THEN JsonOption.value.name
    ELSE IF JsonOption.ok /\ JsonOption.value = ValueBool(FALSE) THEN TextDash
    ELSE ToCamel(tagField.name)

TagOf(key, empty, zero) ==
    TextTagOpen \o key \o (IF empty THEN TextOmitEmpty ELSE <<>>)
        \o (IF zero THEN TextOmitZero ELSE <<>>) \o TextTagClose

\* What follows the key in the tag returned.
HasOmitEmpty == \E zero \in BOOLEAN : tagOut = TagOf(RuledKey, TRUE, zero)
HasOmitZero == \E empty \in BOOLEAN : tagOut = TagOf(RuledKey, empty, TRUE)

\* C18: the tag returned for a field is json:"<key><suffixes>" where the key
\* is the camelCase field name, the string Json gives, or "-" when Json is
\* false; it has the omitempty suffix when JsonOmitEmpty is true and the key
\* is not "-"; and it has both the omitempty and the omitzero suffix when the
\* field is optional.
C18_FieldTagRules ==
    TagDone =>
        /\ \E empty, zero \in BOOLEAN : tagOut = TagOf(RuledKey, empty, zero)
        /\ OmitOption.ok /\ OmitOption.value = ValueBool(TRUE) /\ RuledKey # TextDash
              => HasOmitEmpty
        /\ tagField.isOptional => HasOmitEmpty /\ HasOmitZero

\* The rules for the key and for JsonOmitEmpty alone, and omitzero on every
\* optional field.
C18_KeyAndOmitEmptyRules ==
    TagDone =>
        /\ \E empty, zero \in BOOLEAN : tagOut = TagOf(RuledKey, empty, zero)
        /\ OmitOption.ok /\ OmitOption.value = ValueBool(TRUE) /\ RuledKey # TextDash
              => HasOmitEmpty
        /\ tagField.isOptional <=> HasOmitZero
        /\ tagField.isOptional /\ ~OmitOption.ok => HasOmitEmpty

(***************************************************************************)
(* Duration and byte-size literals: from the token to the text the Go      *)
(* back-end emits.  A token's value is the text of the literal as a        *)
(* sequence of characters; values and scales are int64.                    *)
(***************************************************************************)
DurationScaleNanosecond == Int64Of(1)
DurationScaleMicrosecond == MulDigits(DurationScaleNanosecond, Int64Of(1000))
DurationScaleMillisecond == MulDigits(DurationScaleMicrosecond, Int64Of(1000))
DurationScaleSecond == MulDigits(DurationScaleMillisecond, Int64Of(1000))
DurationScaleMinute == MulDigits(DurationScaleSecond, Int64Of(60))
DurationScaleHour == MulDigits(DurationScaleMinute, Int64Of(60))

ByteSizeB == Int64Of(1)
ByteSizeKB == MulDigits(ByteSizeB, Int64Of(1024))
ByteSizeMB == MulDigits(ByteSizeKB, Int64Of(1024))
ByteSizeGB == MulDigits(ByteSizeMB, Int64Of(1024))
ByteSizeTB == MulDigits(ByteSizeGB, Int64Of(1024))
ByteSizePB == MulDigits(ByteSizeTB, Int64Of(1024))
ByteSizeEB == MulDigits(ByteSizePB, Int64Of(1024))

\* strings.ReplaceAll(text, c, "") for a character c.
Without(text, c) == SelectSeq(text, LAMBDA x : x # c)

DropLast(text, n) == SubSeq(text, 1, Len(text) - n)

parseBytesNumber(value) ==
    LET c == value[Len(value) - 1]
    IN  IF c = "k" THEN [number |-> DropLast(value, 2), scale |-> ByteSizeKB]
        ELSE IF c = "m" THEN [number |-> DropLast(value, 2), scale |-> ByteSizeMB]
        ELSE IF c = "g" THEN [number |-> DropLast(value, 2), scale |-> ByteSizeGB]
        ELSE IF c = "t" THEN [number |-> DropLast(value, 2), scale |-> ByteSizeTB]
        ELSE IF c = "p" THEN [number |-> DropLast(value, 2), scale |-> ByteSizePB]
        ELSE IF c = "e" THEN [number |-> DropLast(value, 2), scale |-> ByteSizeEB]
        ELSE [number |-> DropLast(value, 1), scale |-> ByteSizeB]

parseDurationNumber(value) ==
    LET c == value[Len(value) - 1]
        last == value[Len(value)]
    IN  IF c = "n" THEN [number |-> DropLast(value, 2), scale |-> DurationScaleNanosecond]
        ELSE IF c = "u"
        THEN [number |-> DropLast(value, 2), scale |-> DurationScaleMicrosecond]
        ELSE IF c = "m"
        THEN [number |-> DropLast(value, 2), scale |-> DurationScaleMillisecond]
        ELSE [number |-> DropLast(value, 1),
              scale |-> IF last = "s" THEN DurationScaleSecond
                        ELSE IF last = "m" THEN DurationScaleMinute
                        ELSE IF last = "h" THEN DurationScaleHour
                        ELSE Zeros(8)]

ValueFailed(msg) == [kind |-> "Error", msg |-> msg, value |-> Zeros(8), scale |-> Zeros(8)]
ValueByteSize(x, scale) == [kind |-> "ByteSize", msg |-> "", value |-> x, scale |-> scale]
ValueDuration(x, scale) == [kind |-> "Duration", msg |-> "", value |-> x, scale |-> scale]

\* ParseValue on a ConstBytes or ConstDuration token.
ParseValue(tok) ==
    IF tok.type = "ConstBytes"
    THEN LET p == parseBytesNumber(Without(tok.value, "_"))
             integer == ParseInt(DigitsOf(p.number))
         IN  IF integer.err
             THEN ValueFailed("failed to parse int value for bytes size")
             ELSE ValueByteSize(integer.value, p.scale)
    ELSE LET p == parseDurationNumber(Without(tok.value, "_"))
             integer == ParseInt(DigitsOf(p.number))
         IN  IF integer.err
             THEN ValueFailed("failed to parse int value for duration size")
             ELSE ValueDuration(integer.value, p.scale)

\* getGolangValue on a byte size or a duration: %d of Value * int64(Scale).
getGolangValue(val) == FormatInt(MulDigits(val.value, val.scale))

RunParseValue ==
    /\ litPc = "parse"
    /\ litValue' = ParseValue(litToken)
    /\ litPc' = IF ParseValue(litToken).kind = "Error" THEN "failed" ELSE "parsed"
    /\ UNCHANGED <<litToken, litOut, otherThanLiteral>>

RunGolangValue ==
    /\ litPc = "parsed"
    /\ litOut' = getGolangValue(litValue)
    /\ litPc' = "emitted"
    /\ UNCHANGED <<litToken, litValue, otherThanLiteral>>

NextLiteral == RunParseValue \/ RunGolangValue

(***************************************************************************)
(* The literals: a numeric part, small, large, or at the limits of an      *)
(* int64 and of the largest units, with each unit.                         *)
(***************************************************************************)
NumberTexts ==
    {TextOf(ds) :
        ds \in {<<0>>, <<1>>, <<7>>, <<8>>, <<1, 0>>, <<1, 6>>, <<1, 0, 2, 4>>,
                <<8, 1, 9, 1>>, <<8, 1, 9, 2>>,
                <<2, 5, 6, 2, 0, 4, 7>>, <<2, 5, 6, 2, 0, 4, 8>>,
                <<9, 2, 2, 3, 3, 7, 2, 0, 3, 6, 8, 5, 4, 7, 7, 5, 8, 0, 7>>,
                <<9, 2, 2, 3, 3, 7, 2, 0, 3, 6, 8, 5, 4, 7, 7, 5, 8, 0, 8>>}}
        \cup {<<"1", "_", "0", "0", "0">>}

DurationUnits == {<<"n", "s">>, <<"u", "s">>, <<"m", "s">>, <<"s">>, <<"m">>, <<"h">>}
ByteUnits ==
    {<<"b">>, <<"k", "b">>, <<"m", "b">>, <<"g", "b">>, <<"t", "b">>, <<"p", "b">>,
     <<"e", "b">>}

LiteralInputs ==
    {Token("ConstDuration", n \o u) : n \in NumberTexts, u \in DurationUnits}
        \cup {Token("ConstBytes", n \o u) : n \in NumberTexts, u \in ByteUnits}

InitLiteral ==
    /\ litToken \in LiteralInputs
    /\ litValue = <<>>
    /\ litOut = <<>>
    /\ litPc = "parse"
    /\ IdleValidate
    /\ IdleFormat
    /\ IdleEnum
    /\ IdleTag
    /\ IdleHandOff
    /\ IdleParse
    /\ IdleRetry
    /\ IdleReceive
    /\ IdleSse
    /\ IdleMessage
    /\ IdlePusher

SpecLiteral == InitLiteral /\ [][NextLiteral]_vars

(***************************************************************************)
(* C19: the text emitted against the product.                              *)
(***************************************************************************)
\* The numeric part and the unit of the literal as written.
UnitLength ==
    IF litToken.value[Len(litToken.value) - 1] \in {"n", "u", "k", "g", "t", "p", "e"}
            \/ SubSeq(litToken.value, Len(litToken.value) - 1, Len(litToken.value))
                   \in {<<"m", "s">>, <<"m", "b">>}
    THEN 2 ELSE 1
NumericPart == Without(DropLast(litToken.value, UnitLength), "_")
UnitOf == SubSeq(litToken.value, Len(litToken.value) - UnitLength + 1, Len(litToken.value))

\* The unit's scale and the product, as natural numbers on sixteen digits.
Wide(a) == a \o Zeros(8)
ScaleOf(u) ==
    IF u = <<"n", "s">> THEN Wide(Int64Of(1))
    ELSE IF u = <<"u", "s">> THEN Wide(Int64Of(1000))
    ELSE IF u = <<"m", "s">> THEN Wide(Int64Of(1000000))
    ELSE IF u = <<"s">> THEN Wide(Int64Of(1000000000))
    ELSE IF u = <<"m">> THEN MulDigits(Wide(Int64Of(1000000000)), Wide(Int64Of(60)))
    ELSE IF u = <<"h">> THEN MulDigits(Wide(Int64Of(1000000000)), Wide(Int64Of(3600)))
    ELSE IF u = <<"b">> THEN Wide(Int64Of(1))
    ELSE IF u = <<"k", "b">> THEN Wide(<<0, 4, 0, 0, 0, 0, 0, 0>>)
    ELSE IF u = <<"m", "b">> THEN Wide(<<0, 0, 16, 0, 0, 0, 0, 0>>)
    ELSE IF u = <<"g", "b">> THEN Wide(<<0, 0, 0, 64, 0, 0, 0, 0>>)
    ELSE IF u = <<"t", "b">> THEN Wide(<<0, 0, 0, 0, 0, 1, 0, 0>>)
    ELSE IF u = <<"p", "b">> THEN Wide(<<0, 0, 0, 0, 0, 0, 4, 0>>)
    ELSE Wide(<<0, 0, 0, 0, 0, 0, 0, 16>>)
ExactProduct == MulDigits(NatOf(DigitsOf(NumericPart), 16), ScaleOf(UnitOf))

Emitted == litPc = "emitted"

\* C19: the text emitted for a duration or byte-size literal the parser
\* accepts is the decimal text of the product of its numeric part and its
\* unit's scale, in nanoseconds or bytes.
C19_ExactProduct ==
    Emitted => litOut = TextOf(FormatNat(ExactProduct))

\* The same for the literals whose product is at most the greatest int64.
C19_ExactProductInRange ==
    Emitted /\ IsZero(SubSeq(ExactProduct, 9, 16)) /\ ExactProduct[8] < 128
        => litOut = TextOf(FormatNat(ExactProduct))

\* 1h, 1mb and 10gb are emitted as the spec gives them.
C19_Examples ==
    Emitted =>
        /\ litToken.value = <<"1", "h">>
              => litOut = TextOf(<<3, 6, 0, 0, 0, 0, 0, 0, 0, 0, 0, 0, 0>>)
        /\ litToken.value = <<"1", "m", "b">> => litOut = TextOf(<<1, 0, 4, 8, 5, 7, 6>>)
        /\ litToken.value = <<"1", "0", "g", "b">>
              => litOut = TextOf(<<1, 0, 7, 3, 7, 4, 1, 8, 2, 4, 0>>)

(***************************************************************************)
(* The token hand-off.  The lexer goroutine (scanner.Start) sends its      *)
(* tokens with EmitToken on the EmitterIterator's channel and returns      *)
(* after EOF; the parser receives them with NextToken, called by           *)
(* Parser.Next and Parser.Peek.  A send on a full channel and a receive on *)
(* an empty or nil channel block: the step is not enabled.                 *)
(***************************************************************************)
ChannelCapacity == 2

NoToken == <<>>
TokenEOF == Token("EOF", "")

\* token.NewEmitterIterator and the Parser NewParser returns.
NewEmitterIterator == [tokens |-> <<>>, open |-> TRUE, end |-> NoToken]
NewParser == [currTok |-> NoToken, nextTok |-> NoToken]

\* e.tokens <- token can proceed.
CanSend(e) == e.open /\ Len(e.tokens) < ChannelCapacity

\* <-e.tokens can proceed: a receive on the nil channel never does.
CanReceive(e) == e.open /\ e.tokens # <<>>

\* EmitterIterator.EmitToken.
EmitterSend(e, tok) == [e EXCEPT !.tokens = Append(e.tokens, tok)]

\* EmitterIterator.NextToken when the receive proceeds: the token, and the
\* emitter after it; on EOF the channel is closed and e.tokens set to nil.
NextToken(e) ==
    LET tok == Head(e.tokens)
    IN  IF tok.type = "EOF"
        THEN [tok |-> tok, e |-> [tokens |-> Tail(e.tokens), open |-> FALSE, end |-> tok]]
        ELSE [tok |-> tok, e |-> [e EXCEPT !.tokens = Tail(e.tokens)]]

\* Parser.Next reads the channel only when no token was peeked.
NextProceeds(p, e) == p.nextTok # NoToken \/ CanReceive(e)
ParserNext(p, e) ==
    IF p.nextTok # NoToken
    THEN [p |-> [currTok |-> p.nextTok, nextTok |-> NoToken], e |-> e]
    ELSE [p |-> [currTok |-> NextToken(e).tok, nextTok |-> NoToken],
          e |-> NextToken(e).e]

\* Parser.Peek fills nextTok when it is nil.
PeekProceeds(p, e) == p.nextTok # NoToken \/ CanReceive(e)
\* A Peek that reads the channel at every call.
ParserPeekAgain(p, e) ==
    IF CanReceive(e)
    THEN [p |-> [p EXCEPT !.nextTok = NextToken(e).tok], e |-> NextToken(e).e]
    ELSE [p |-> p, e |-> e]
ParserPeek(p, e) ==
    IF p.nextTok = NoToken
    THEN [p |-> [p EXCEPT !.nextTok = NextToken(e).tok], e |-> NextToken(e).e]
    ELSE [p |-> p, e |-> e]

MaxPeeks == 3

\* The lexer emits its next token.
EmitToken ==
    /\ lexAt < Len(lexInput)
    /\ CanSend(emitter)
    /\ emitter' = EmitterSend(emitter, lexInput[lexAt + 1])
    /\ lexAt' = lexAt + 1
    /\ UNCHANGED <<lexInput, parser, returned, lastPeek, peeks, stopped,
                   otherThanHandOff>>

\* The parser calls Next and the call returns.
CallNext ==
    /\ parser # <<>>
    /\ ~stopped
    /\ NextProceeds(parser, emitter)
    /\ parser' = ParserNext(parser, emitter).p
    /\ emitter' = ParserNext(parser, emitter).e
    /\ returned' = Append(returned, ParserNext(parser, emitter).p.currTok)
    /\ lastPeek' = NoToken
    /\ UNCHANGED <<lexInput, lexAt, peeks, stopped, otherThanHandOff>>

\* The parser calls Peek and the call returns.
CallPeek ==
    /\ parser # <<>>
    /\ ~stopped
    /\ peeks < MaxPeeks
    /\ PeekProceeds(parser, emitter)
    /\ parser' = ParserPeek(parser, emitter).p
    /\ emitter' = ParserPeek(parser, emitter).e
    /\ lastPeek' = ParserPeek(parser, emitter).p.nextTok
    /\ peeks' = peeks + 1
    /\ UNCHANGED <<lexInput, lexAt, returned, stopped, otherThanHandOff>>

\* The parser returns, with a document after EOF or with the error of the
\* token it has just been given, and makes no further call.
ParserReturns ==
    /\ parser # <<>>
    /\ ~stopped
    /\ parser.currTok # NoToken \/ parser.nextTok # NoToken
    /\ stopped' = TRUE
    /\ UNCHANGED <<lexInput, lexAt, emitter, parser, returned, lastPeek, peeks,
                   otherThanHandOff>>

NextHandOff == EmitToken \/ CallNext \/ CallPeek \/ ParserReturns

(***************************************************************************)
(* The token streams: any tokens, equal ones among them, and EOF last.     *)
(***************************************************************************)
MaxTokens == 4

HandOffInputs ==
    {body \o <<TokenEOF>> :
        body \in SeqsUpTo({Token("Identifier", "A"), Token("Identifier", "B")},
                          MaxTokens)}

InitHandOff ==
    /\ lexInput \in HandOffInputs
    /\ lexAt = 0
    /\ emitter = NewEmitterIterator
    /\ parser = NewParser
    /\ returned = <<>>
    /\ lastPeek = NoToken
    /\ peeks = 0
    /\ stopped = FALSE
    /\ IdleValidate
    /\ IdleFormat
    /\ IdleEnum
    /\ IdleTag
    /\ IdleLiteral
    /\ IdleParse
    /\ IdleRetry
    /\ IdleReceive
    /\ IdleSse
    /\ IdleMessage
    /\ IdlePusher

SpecHandOff == InitHandOff /\ [][NextHandOff]_vars

\* The Go scheduler runs the lexer goroutine whenever its send can proceed,
\* and a parser that has not returned goes on to its next token.
SpecHandOffFair ==
    SpecHandOff /\ WF_vars(EmitToken) /\ WF_vars(CallNext)

(***************************************************************************)
(* C20: the hand-off is a bounded FIFO.                                    *)
(***************************************************************************)
HandOffRuns == parser # <<>>

\* The tokens on their way: the peeked one, then those in the channel.
InFlight ==
    (IF parser.nextTok = NoToken THEN <<>> ELSE <<parser.nextTok>>) \o emitter.tokens

\* The lexer is blocked in EmitToken, the parser would block in NextToken.
LexerBlocked == lexAt < Len(lexInput) /\ ~CanSend(emitter)
ParserBlocked == parser.nextTok = NoToken /\ ~CanReceive(emitter)

\* C20: the channel never holds more than 2 tokens; the lexer is blocked
\* exactly while it has a token to emit and the channel holds 2, and a
\* parser call that needs a token cannot return while none has arrived and
\* EOF has not been handed over; the tokens Next returned, followed by the
\* peeked token and the tokens in the channel, are the tokens emitted so
\* far, in order, so that none is lost or duplicated; a token Peek returned
\* is the one the next Next returns; and once Next has returned EOF the
\* tokens it returned are all the lexer's tokens.
C20_BoundedFifoHandOff ==
    HandOffRuns =>
        /\ Len(emitter.tokens) <= ChannelCapacity
        /\ emitter.open =>
              /\ LexerBlocked <=> lexAt < Len(lexInput) /\ Len(emitter.tokens) = ChannelCapacity
              /\ ParserBlocked <=> Len(returned) = lexAt
        /\ returned \o InFlight = SubSeq(lexInput, 1, lexAt)
        /\ lastPeek # NoToken =>
              /\ lastPeek = parser.nextTok
              /\ lastPeek = lexInput[Len(returned) + 1]
        /\ returned # <<>> /\ returned[Len(returned)] = TokenEOF => returned = lexInput

\* The same read step by step: a call of Next returns the token after those
\* returned before, a call of Peek and a step of the lexer leave the
\* returned tokens as they are.
C20_NextInOrder ==
    [][HandOffRuns =>
          \/ returned' = returned
          \/ returned' = Append(returned, lexInput[Len(returned) + 1])]_vars

\* The channel full with the lexer blocked on its next token, a token
\* returned by Next already, and a peeked token waiting for the next Next.
C20_Witness ==
    /\ HandOffRuns
    /\ Len(emitter.tokens) = ChannelCapacity
    /\ LexerBlocked
    /\ returned # <<>>
    /\ lastPeek # NoToken
    /\ lastPeek = parser.nextTok

\* Next has returned every token, EOF included, after a Peek.
C20_WitnessEOF ==
    /\ HandOffRuns
    /\ returned = lexInput
    /\ Len(returned) = MaxTokens + 1
    /\ peeks > 0

(***************************************************************************)
(* C26: NextToken after EOF.                                               *)
(***************************************************************************)
\* NextToken has returned the EOF token: it is kept in e.end.
EOFReturned == HandOffRuns /\ emitter.end # NoToken

\* C26: once NextToken has returned EOF, a further call of NextToken
\* returns: its receive on e.tokens proceeds.
C26_NextTokenAfterEOF == EOFReturned => CanReceive(emitter)

\* The same once Next has handed EOF to the parser and no token is peeked,
\* so that the next call of Next or Peek is a call of NextToken.
C26_NextAfterEOF ==
    EOFReturned /\ returned = lexInput => NextProceeds(parser, emitter)

(***************************************************************************)
(* C27: the lexer goroutine ends.                                          *)
(***************************************************************************)
\* scanner.Start has emitted all its tokens, EOF included, and returned.
LexerReturned == HandOffRuns /\ lexAt = Len(lexInput)

\* C27: in every run the lexer goroutine eventually returns.
C27_LexerTerminates == <>LexerReturned

\* The same for the runs in which the parser goes on reading to EOF.
C27_LexerTerminatesWhenRead == <>(LexerReturned \/ stopped)

\* The parser has returned and the lexer waits in EmitToken on the full
\* channel, which nothing reads any more.
C27_LexerLeftBlocked == stopped /\ LexerBlocked

(***************************************************************************)
(* ParseDocument, one iteration of a production's loop at a time.  The     *)
(* stream is psTokens and Peek returns psTokens[psAt]; the members of a    *)
(* body (a constant, an enum set, a field, a method, an error value) are   *)
(* read by the operators below, which consume a token at every turn.       *)
(***************************************************************************)
\* The token types ParseValue accepts.
ValueTokens ==
    {"ConstBytes", "ConstDuration", "ConstFloat", "ConstInt", "ConstBool",
     "ConstNull", "ConstStringSingleQuote", "ConstStringDoubleQuote",
     "ConstStringBacktickQoute", "Identifier"}
StringTokens ==
    {"ConstStringSingleQuote", "ConstStringDoubleQuote", "ConstStringBacktickQoute"}

ParseConst(ts, i, pending) ==
    IF ts[i].type # "Const" THEN Failed(i)
    ELSE IF ts[i + 1].type # "Identifier" THEN Failed(i + 1)
    ELSE IF ts[i + 2].type # "Assign" THEN Failed(i + 2)
    ELSE IF ts[i + 3].type \notin ValueTokens THEN Failed(i + 3)
    ELSE Parsed(i + 4, pending, [name |-> ts[i + 1].value, comments |-> <<>>])

ParseOption(ts, i, pending) ==
    IF ts[i].type # "Identifier" THEN Failed(i)
    ELSE IF ts[i + 1].type # "Assign"
    THEN Parsed(i + 1, pending, [name |-> ts[i].value, comments |-> <<>>])
    ELSE IF ts[i + 2].type \notin ValueTokens THEN Failed(i + 2)
    ELSE Parsed(i + 3, pending, [name |-> ts[i].value, comments |-> <<>>])

\* The loop of ParseOptions after `{`.
RECURSIVE ParseOptionItems(_, _, _, _)
ParseOptionItems(ts, i, pending, options) ==
    IF ts[i].type = "CloseCurly"
    THEN Parsed(i + 1, <<>>,
                [options EXCEPT !.comments = options.comments \o AtBottom(pending)])
    ELSE IF ts[i].type = "Comment"
    THEN ParseOptionItems(ts, i + 1, Append(pending, Comment(ts[i])), options)
    ELSE LET o == ParseOption(ts, i, pending)
         IN  IF o.err THEN o
             ELSE ParseOptionItems(ts, o.i, <<>>,
                     [options EXCEPT !.list =
                         Append(options.list, [o.node EXCEPT !.comments = pending])])

ParseOptions(ts, i, pending) ==
    ParseOptionItems(ts, i + 1, pending, [list |-> <<>>, comments |-> <<>>])

\* ParseServiceMethodArgument and ParseServiceMethodReturnArg.
ParseServiceMethodArgument(ts, i, pending) ==
    IF ts[i].type # "Identifier" THEN Failed(i)
    ELSE IF ~IsCamel(ts[i].value) THEN Failed(i)
    ELSE IF ts[i + 1].type # "Colon" THEN Failed(i + 1)
    ELSE LET j == IF ts[i + 2].type = "Stream" THEN i + 3 ELSE i + 2
             t == ParseType(ts, j, pending)
         IN  IF t.err THEN t
             ELSE Parsed(IF ts[t.i].type = "Comma" THEN t.i + 1 ELSE t.i, pending,
                         [name |-> ts[i].value])

\* for p.Peek().Type != token.CloseParen { ... }
RECURSIVE ParseArguments(_, _, _)
ParseArguments(ts, i, pending) ==
    IF ts[i].type = "CloseParen" THEN Parsed(i + 1, pending, <<>>)
    ELSE LET a == ParseServiceMethodArgument(ts, i, pending)
         IN  IF a.err THEN a ELSE ParseArguments(ts, a.i, pending)

ParseServiceMethod(ts, i, pending) ==
    IF ts[i].type # "Identifier" THEN Failed(i)
    ELSE IF ~IsPascal(ts[i].value) THEN Failed(i)
    ELSE IF ts[i + 1].type # "OpenParen" THEN Failed(i + 1)
    ELSE LET as == ParseArguments(ts, i + 2, pending)
         IN  IF as.err THEN as
             ELSE LET rs == IF ts[as.i].type # "Return" THEN as
                            ELSE IF ts[as.i + 1].type # "OpenParen"
                            THEN Failed(as.i + 1)
                            ELSE ParseArguments(ts, as.i + 2, pending)
                      method == [name |-> ts[i].value, comments |-> pending]
                  IN  IF rs.err THEN rs
                      ELSE IF ts[rs.i].type # "OpenCurly"
                      THEN Parsed(rs.i, <<>>, method)
                      ELSE LET os == ParseOptions(ts, rs.i, <<>>)
                           IN  IF os.err THEN os ELSE Parsed(os.i, os.pending, method)

\* parseCustomErrorValues on the error being built.
parseCustomErrorValues(ts, i, pending, customError) ==
    IF ts[i].type # "Identifier" THEN Failed(i)
    ELSE IF ts[i].value = "Code"
    THEN IF customError.code THEN Failed(i)
         ELSE IF ts[i + 1].type # "Assign" THEN Failed(i + 1)
         ELSE IF ts[i + 2].type # "ConstInt" THEN Failed(i + 2)
         ELSE Parsed(i + 3, pending, [customError EXCEPT !.code = TRUE])
    ELSE IF ts[i].value = "Msg"
    THEN IF customError.msg THEN Failed(i)
         ELSE IF ts[i + 1].type # "Assign" THEN Failed(i + 1)
         ELSE IF ts[i + 2].type \notin ValueTokens THEN Failed(i + 2)
         ELSE IF ts[i + 2].type \notin StringTokens THEN Failed(i + 3)
         ELSE Parsed(i + 3, pending, [customError EXCEPT !.msg = TRUE])
    ELSE Failed(i)

\* strings.HasPrefix(name, "Http") and strings.HasPrefix(name, "Rpc").
HasPrefixHttp(n) == n \in {"HttpA", "HttpB"}
HasPrefixRpc(n) == n \in {"RpcA", "RpcB"}

Container(kind, n, cs) ==
    [kind |-> kind, name |-> n, members |-> 0, comments |-> cs,
     code |-> FALSE, msg |-> FALSE, trailing |-> <<>>]

PeekToken == psTokens[psAt]

ParseMoves(at, cs, mode, doc, node, after, since) ==
    /\ psAt' = at
    /\ psComments' = cs
    /\ psMode' = mode
    /\ psDoc' = doc
    /\ psNode' = node
    /\ psAfter' = after
    /\ psSince' = since
    /\ UNCHANGED <<psTokens, otherThanParse>>

\* A production returns an error: ParseDocument returns it.
ParseFails(at) == ParseMoves(at, psComments, "failed", psDoc, psNode, "", psSince)

\* A production has read `keyword Name {`: its loop begins.
ParseOpens(mode, top, cs) ==
    ParseMoves(psAt + 3, cs, mode, psDoc,
               Container(mode, psTokens[psAt + 1].value, top), "", <<>>)

\* A container's production returns node: ParseDocument appends it.
ParseCloses(cs, node) ==
    ParseMoves(psAt + 1, cs, "document",
               [psDoc EXCEPT !.decls =
                   Append(psDoc.decls,
                          [node EXCEPT !.trailing =
                              IF node.members > 0 THEN psSince ELSE <<>>])],
               <<>>, node.kind, <<>>)

\* A comment in a body is added to p.comments.
ParseKeeps(c) ==
    ParseMoves(psAt + 1, Append(psComments, c), psMode, psDoc, psNode, "",
               Append(psSince, c))

\* A member of the body was read, up to the token at `at`.
ParseAdds(at, cs) ==
    ParseMoves(at, cs, psMode, psDoc,
               [psNode EXCEPT !.members = psNode.members + 1], "", <<>>)

\* One iteration of ParseDocument's loop, or its return at EOF.
DocumentStep ==
    /\ psMode = "document"
    /\ LET t == PeekToken.type
           named == psTokens[psAt + 1].type = "Identifier"
                        /\ IsPascal(psTokens[psAt + 1].value)
           opened == named /\ psTokens[psAt + 2].type = "OpenCurly"
           failsAt == IF ~named THEN psAt + 1 ELSE psAt + 2
       IN  IF t = "EOF"
           THEN ParseMoves(psAt, <<>>, "returned",
                           [psDoc EXCEPT !.comments = psDoc.comments \o psComments],
                           <<>>, "", <<>>)
           ELSE IF t = "Comment"
           THEN ParseMoves(psAt + 1, Append(psComments, Comment(PeekToken)),
                           "document", psDoc, <<>>, "", <<>>)
           ELSE IF t = "Const"
           THEN LET c == ParseConst(psTokens, psAt, psComments)
                IN  IF c.err THEN ParseFails(c.i)
                    ELSE ParseMoves(c.i, <<>>, "document",
                            [psDoc EXCEPT !.decls =
                                Append(psDoc.decls,
                                       Container("const", c.node.name, psComments))],
                            <<>>, "", <<>>)
           ELSE IF t = "Enum"
           THEN IF opened THEN ParseOpens("enum", <<>>, psComments)
                ELSE ParseFails(failsAt)
           ELSE IF t = "Model"
           THEN IF opened THEN ParseOpens("model", psComments, <<>>)
                ELSE ParseFails(failsAt)
           ELSE IF t = "Service"
           THEN IF ~named THEN ParseFails(psAt + 1)
                ELSE IF ~HasPrefixHttp(psTokens[psAt + 1].value)
                        /\ ~HasPrefixRpc(psTokens[psAt + 1].value)
                THEN ParseFails(psAt + 1)
                ELSE IF opened THEN ParseOpens("service", psComments, <<>>)
                ELSE ParseFails(psAt + 2)
           ELSE IF t = "CustomError"
           THEN IF opened THEN ParseOpens("error", <<>>, psComments)
                ELSE ParseFails(failsAt)
           ELSE ParseFails(psAt)

\* One iteration of the loop of ParseEnum, or what follows its break.
EnumStep ==
    /\ psMode = "enum"
    /\ LET t == PeekToken.type
       IN  IF t = "CloseCurly"
           THEN ParseCloses(<<>>, [psNode EXCEPT !.comments = psNode.comments \o psComments])
           ELSE IF t = "Identifier"
           THEN LET set == EnumSet(psTokens, psAt)
                IN  IF set.err # "" THEN ParseFails(psAt) ELSE ParseAdds(set.i, <<>>)
           ELSE IF t = "Comment"
           THEN ParseKeeps([Comment(PeekToken) EXCEPT !.position = CommentBottom])
           ELSE ParseMoves(psAt, psComments, psMode, psDoc, psNode, psAfter, psSince)

\* One iteration of the loop of ParseModel, or what follows its break.
ModelStep ==
    /\ psMode = "model"
    /\ LET t == PeekToken.type
       IN  IF t = "CloseCurly"
           THEN ParseCloses(<<>>, [psNode EXCEPT !.comments =
                                       psNode.comments \o AtBottom(psComments)])
           ELSE IF t = "Comment" THEN ParseKeeps(Comment(PeekToken))
           ELSE IF t = "Extend"
           THEN LET e == ParseExtend(psTokens, psAt, psComments)
                IN  IF e.err THEN ParseFails(e.i) ELSE ParseAdds(e.i, <<>>)
           ELSE LET f == ParseModelField(psTokens, psAt, psComments)
                IN  IF f.err THEN ParseFails(f.i) ELSE ParseAdds(f.i, f.pending)

\* One iteration of the loop of ParseService, or what follows its break.
ServiceStep ==
    /\ psMode = "service"
    /\ LET t == PeekToken.type
       IN  IF t = "CloseCurly" THEN ParseCloses(psComments, psNode)
           ELSE IF t = "Comment" THEN ParseKeeps(Comment(PeekToken))
           ELSE LET m == ParseServiceMethod(psTokens, psAt, psComments)
                IN  IF m.err THEN ParseFails(m.i) ELSE ParseAdds(m.i, m.pending)

\* One iteration of the loop of ParseCustomError, or what follows its break.
ErrorStep ==
    /\ psMode = "error"
    /\ LET t == PeekToken.type
       IN  IF t = "CloseCurly"
           THEN IF ~psNode.msg THEN ParseFails(psAt + 1)
                ELSE ParseCloses(<<>>, [psNode EXCEPT !.comments =
                                            psNode.comments \o psComments])
           ELSE IF t = "Comment" THEN ParseKeeps(Comment(PeekToken))
           ELSE LET val == parseCustomErrorValues(psTokens, psAt, psComments, psNode)
                IN  IF val.err THEN ParseFails(val.i)
                    ELSE ParseMoves(val.i, psComments, psMode, psDoc,
                                    [val.node EXCEPT !.members = psNode.members + 1],
                                    "", <<>>)

NextParse == DocumentStep \/ EnumStep \/ ModelStep \/ ServiceStep \/ ErrorStep

(***************************************************************************)
(* The token streams ParseDocument is run on: declarations of every kind   *)
(* with comments before them, before their member and after it, and the    *)
(* same streams cut short or with one token replaced.                      *)
(***************************************************************************)
MaxDecls == 2

Mark(type) == Token(type, "")
Name(n) == Token("Identifier", n)
Note(n) == Token("Comment", n)
Maybe(b, ts) == IF b THEN ts ELSE <<>>

EnumDecl(c1, c2, c3) ==
    Maybe(c1, <<Note("c1")>>) \o <<Mark("Enum"), Name("A"), Mark("OpenCurly")>>
        \o Maybe(c2, <<Note("c2")>>)
        \o <<Name("B")>>
        \o Maybe(c3, <<Note("c3")>>) \o <<Mark("CloseCurly")>>

ModelDecl(c1, c2, c3) ==
    Maybe(c1, <<Note("c1")>>) \o <<Mark("Model"), Name("M"), Mark("OpenCurly")>>
        \o Maybe(c2, <<Note("c2")>>)
        \o <<Name("F"), Mark("Colon"), Mark("String")>>
        \o Maybe(c3, <<Note("c3")>>) \o <<Mark("CloseCurly")>>

ServiceDecl(c1, c2, c3, options) ==
    Maybe(c1, <<Note("c1")>>) \o <<Mark("Service"), Name("HttpA"), Mark("OpenCurly")>>
        \o Maybe(c2, <<Note("c2")>>)
        \o <<Name("Get"), Mark("OpenParen"), Name("a1"), Mark("Colon"), Mark("String"),
             Mark("CloseParen"), Mark("Return"), Mark("OpenParen"), Name("r1"),
             Mark("Colon"), Mark("Stream"), Mark("String"), Mark("CloseParen")>>
        \o Maybe(options, <<Mark("OpenCurly"), Name("Opt"), Note("c4"),
                            Mark("CloseCurly")>>)
        \o Maybe(c3, <<Note("c3")>>) \o <<Mark("CloseCurly")>>

ErrorDecl(c1, c2, c3) ==
    Maybe(c1, <<Note("c1")>>) \o <<Mark("CustomError"), Name("C"), Mark("OpenCurly")>>
        \o Maybe(c2, <<Note("c2")>>)
        \o <<Name("Msg"), Mark("Assign"), Token("ConstStringDoubleQuote", "s")>>
        \o Maybe(c3, <<Note("c3")>>) \o <<Mark("CloseCurly")>>

ConstDecl(c1) ==
    Maybe(c1, <<Note("c1")>>)
        \o <<Mark("Const"), Name("D"), Mark("Assign"), Token("ConstInt", "5")>>

Decls ==
    {EnumDecl(c1, c2, c3) : c1, c2, c3 \in BOOLEAN}
        \cup {ModelDecl(c1, c2, c3) : c1, c2, c3 \in BOOLEAN}
        \cup {ServiceDecl(c1, c2, c3, o) : c1, c2, c3, o \in BOOLEAN}
        \cup {ErrorDecl(c1, c2, c3) : c1, c2, c3 \in BOOLEAN}
        \cup {ConstDecl(c1) : c1 \in BOOLEAN}

\* What follows the first declaration: declarations without comments, or a
\* comment alone.
Followers ==
    {EnumDecl(FALSE, FALSE, FALSE), ModelDecl(FALSE, FALSE, FALSE),
     ServiceDecl(FALSE, FALSE, FALSE, FALSE), ErrorDecl(FALSE, FALSE, FALSE),
     ConstDecl(FALSE), <<Note("c5")>>}

WholeStreams ==
    {d \o Concat(rest) \o <<Mark("EOF")>> :
        d \in Decls, rest \in SeqsUpTo(Followers, MaxDecls - 1)}

\* A stream cut before its j-th token, or with its j-th token replaced by
\* an Error token of the lexer or by a token of another kind.
Replacements == {Token("Error", "unexpected character"), Token("ConstInt", "7"),
                 Mark("Assign"), Mark("CloseParen")}
DamagedStreams ==
    UNION {{SubSeq(d, 1, j - 1) \o <<Mark("EOF")>> : j \in 1..Len(d)}
             \cup {[d EXCEPT ![j] = r] \o ModelDecl(FALSE, FALSE, FALSE)
                       \o <<Mark("EOF")>> :
                     j \in 1..Len(d), r \in Replacements} :
           d \in Decls}

ParseInputs == WholeStreams \cup DamagedStreams

InitParse ==
    /\ psTokens \in ParseInputs
    /\ psAt = 1
    /\ psComments = <<>>
    /\ psMode = "document"
    /\ psDoc = [decls |-> <<>>, comments |-> <<>>]
    /\ psNode = <<>>
    /\ psAfter = ""
    /\ psSince = <<>>
    /\ IdleValidate
    /\ IdleFormat
    /\ IdleEnum
    /\ IdleTag
    /\ IdleLiteral
    /\ IdleHandOff
    /\ IdleRetry
    /\ IdleReceive
    /\ IdleSse
    /\ IdleMessage
    /\ IdlePusher

SpecParse == InitParse /\ [][NextParse]_vars

\* A parser that has not returned goes on with the next iteration.
SpecParseFair == SpecParse /\ WF_vars(NextParse)

(***************************************************************************)
(* C21: ParseDocument returns.                                             *)
(***************************************************************************)
ParseReturned == psMode \in {"returned", "failed"}
HasErrorToken == \E j \in 1..Len(psTokens) : psTokens[j].type = "Error"

\* The parser is at an iteration that reads no token and does not return.
ParseSpins ==
    /\ psMode = "enum"
    /\ PeekToken.type \notin {"CloseCurly", "Identifier", "Comment"}

\* C21: ParseDocument returns after finitely many steps, with a Document
\* or with an error, and it returns no Document for a stream that holds an
\* Error token.
C21_ParseDocumentReturns ==
    /\ <>ParseReturned
    /\ [](psMode = "returned" => ~HasErrorToken)

\* The same for the streams on which no enum body holds a token other than
\* a member, a comment or the closing brace: the parser never spins.
C21_ReturnsOutsideEnum ==
    /\ (<>ParseSpins) \/ (<>ParseReturned)
    /\ [](psMode = "returned" => ~HasErrorToken)

(***************************************************************************)
(* C28: the comments after the last member of a body.                      *)
(***************************************************************************)
Containers == {"enum", "model", "service", "error"}

\* The comments of d hold c at the bottom.
HeldAtBottom(d, c) ==
    \E j \in 1..Len(d.comments) :
        d.comments[j].value = c.value /\ d.comments[j].position = CommentBottom

\* The comments read after the last member of the k-th declaration are
\* held by a declaration after it.
CarriedToLater(k) ==
    \E m \in (k + 1)..Len(psDoc.decls) :
        \E j \in 1..Len(psDoc.decls[k].trailing) :
            \E n \in 1..Len(psDoc.decls[m].comments) :
                psDoc.decls[m].comments[n].value = psDoc.decls[k].trailing[j].value

CarriedToDocument(k) ==
    \E j \in 1..Len(psDoc.decls[k].trailing) :
        \E n \in 1..Len(psDoc.comments) :
            psDoc.comments[n].value = psDoc.decls[k].trailing[j].value

TrailingKept(kinds) ==
    /\ \A k \in 1..Len(psDoc.decls) :
          psDoc.decls[k].kind \in kinds =>
              /\ \A j \in 1..Len(psDoc.decls[k].trailing) :
                    HeldAtBottom(psDoc.decls[k], psDoc.decls[k].trailing[j])
              /\ ~CarriedToLater(k)
              /\ ~CarriedToDocument(k)
    /\ psAfter \in kinds => psComments = <<>>

\* C28: a comment after the last member of an enum, a model, a service or a
\* custom error is attached to that container at the bottom, it is not
\* carried to a later declaration or to the document, and the pending
\* comments are empty when the container's production returns.
C28_TrailingComments == TrailingKept(Containers)

\* The same of the enums and the models alone.
C28_TrailingOfEnumAndModel == TrailingKept({"enum", "model"})

\* A container with a comment after its last member has been returned.
C28_Witness ==
    \E k \in 1..Len(psDoc.decls) :
        psDoc.decls[k].kind \in {"enum", "model"} /\ psDoc.decls[k].trailing # <<>>

\* The streams as written are documents: ParseDocument returns them.
WholeStreamsParse == psTokens \in WholeStreams => psMode # "failed"

(***************************************************************************)
(* retryTransport.RoundTrip.  The wrapped transport answers every attempt  *)
(* with an error or with a response of some status; the request's context  *)
(* may be cancelled at any moment; GetBody may fail.                       *)
(***************************************************************************)
RetriesLimit == 2

ErrMaxRetries == "max retries exceeded"
ErrCloneBody == "failed to clone request body"
ErrContext == "context canceled"

TransportError == [err |-> TRUE, status |-> 0]
Response(status) == [err |-> FALSE, status |-> status]
Statuses == {200, 301, 404, 429, 499, 500, 503, 599}
Outcomes == {TransportError} \cup {Response(s) : s \in Statuses}

shouldRetryServerErrors(statusCode) == statusCode >= 500
shouldRetry(statusCode) == statusCode >= 500 \/ statusCode = 429

RoundTripReturns(resp, err) ==
    /\ rtPc' = "returned"
    /\ rtResult' = [resp |-> resp, err |-> err]

\* One turn of the loop up to the wait: the body is cloned, the request is
\* sent, and a response that is not to be retried is returned.  After the
\* last attempt the loop ends and RoundTrip returns the error.
Attempt ==
    /\ rtPc = "attempt"
    /\ \E cloned \in BOOLEAN, o \in Outcomes :
          IF rtBody /\ ~cloned
          THEN /\ RoundTripReturns(<<>>, ErrCloneBody)
               /\ UNCHANGED <<rtAttempt, rtSent>>
          ELSE /\ rtSent' = Append(rtSent, o)
               /\ IF ~o.err /\ ~shouldRetry(o.status)
                  THEN /\ RoundTripReturns(o, "")
                       /\ UNCHANGED rtAttempt
                  ELSE IF rtAttempt < rtMax
                  THEN /\ rtPc' = "wait"
                       /\ UNCHANGED <<rtAttempt, rtResult>>
                  ELSE /\ rtAttempt' = rtAttempt + 1
                       /\ RoundTripReturns(IF o.err THEN <<>> ELSE o, ErrMaxRetries)
    /\ UNCHANGED <<rtMax, rtBody, rtCtxDone, otherThanRetry>>

\* The select of the wait: the delay has passed.
WaitElapsed ==
    /\ rtPc = "wait"
    /\ rtPc' = "attempt"
    /\ rtAttempt' = rtAttempt + 1
    /\ UNCHANGED <<rtMax, rtBody, rtSent, rtCtxDone, rtResult, otherThanRetry>>

\* The select of the wait: the context is done.
WaitCancelled ==
    /\ rtPc = "wait"
    /\ rtCtxDone
    /\ RoundTripReturns(<<>>, ErrContext)
    /\ UNCHANGED <<rtMax, rtBody, rtAttempt, rtSent, rtCtxDone, otherThanRetry>>

\* The caller cancels the request's context.
CancelRequest ==
    /\ rtPc \in {"attempt", "wait"}
    /\ ~rtCtxDone
    /\ rtCtxDone' = TRUE
    /\ UNCHANGED <<rtMax, rtBody, rtPc, rtAttempt, rtSent, rtResult, otherThanRetry>>

NextRetry == Attempt \/ WaitElapsed \/ WaitCancelled \/ CancelRequest

InitRetry ==
    /\ rtMax \in 0..RetriesLimit
    /\ rtBody \in BOOLEAN
    /\ rtPc = "attempt"
    /\ rtAttempt = 0
    /\ rtSent = <<>>
    /\ rtCtxDone = FALSE
    /\ rtResult = <<>>
    /\ IdleValidate
    /\ IdleFormat
    /\ IdleEnum
    /\ IdleTag
    /\ IdleLiteral
    /\ IdleHandOff
    /\ IdleParse
    /\ IdleReceive
    /\ IdleSse
    /\ IdleMessage
    /\ IdlePusher

SpecRetry == InitRetry /\ [][NextRetry]_vars

(***************************************************************************)
(* C22                                                                     *)
(***************************************************************************)
\* An attempt that failed: a transport error, a 5xx or a 429.
FailedAttempt(o) == o.err \/ o.status \in 500..599 \/ o.status = 429

RoundTripReturned == rtPc = "returned"
LastSent == rtSent[Len(rtSent)]

AtMostMaxRetriesPlusOne == Len(rtSent) <= rtMax + 1

\* A response that is not a failure is the last one sent, and it is what
\* RoundTrip returns, without an error.
FirstGoodResponseReturned ==
    \A k \in 1..Len(rtSent) :
        ~FailedAttempt(rtSent[k]) =>
            /\ k = Len(rtSent)
            /\ RoundTripReturned
            /\ rtResult = [resp |-> rtSent[k], err |-> ""]

\* After the last of the MaxRetries+1 attempts has failed, the error is
\* "max retries exceeded".
ExhaustedIsError ==
    (RoundTripReturned /\ Len(rtSent) = rtMax + 1 /\ FailedAttempt(LastSent))
        => rtResult.err = ErrMaxRetries

\* RoundTrip returns without an error only a response that is not a failure.
NoFailureAsSuccess ==
    (RoundTripReturned /\ rtResult.err = "")
        => (Len(rtSent) > 0 /\ ~FailedAttempt(LastSent))

\* C22: RoundTrip sends at most MaxRetries+1 times, returns at once the
\* first response that is neither 5xx nor 429, goes on to another attempt
\* after every failure while attempts remain, and returns "max retries
\* exceeded" after the last attempt has failed.
C22_RoundTripRetries ==
    /\ AtMostMaxRetriesPlusOne
    /\ FirstGoodResponseReturned
    /\ NoFailureAsSuccess
    /\ ExhaustedIsError
    /\ (RoundTripReturned /\ rtResult.err # "") => Len(rtSent) = rtMax + 1

\* C22 as the code has it: RoundTrip gives up with attempts remaining when
\* the request's context is done during the wait between two attempts, and
\* when the body cannot be cloned; it then returns that error.
C22_RoundTripRetriesUnlessStopped ==
    /\ AtMostMaxRetriesPlusOne
    /\ FirstGoodResponseReturned
    /\ NoFailureAsSuccess
    /\ ExhaustedIsError
    /\ (RoundTripReturned /\ rtResult.err \notin {"", ErrContext, ErrCloneBody})
          => Len(rtSent) = rtMax + 1
    /\ (RoundTripReturned /\ rtResult.err = ErrContext)
          => (rtCtxDone /\ Len(rtSent) \in 1..rtMax /\ FailedAttempt(LastSent))
    /\ (RoundTripReturned /\ rtResult.err = ErrCloneBody) => rtBody

\* All the attempts were made and failed, the last with a 429.
C22_Witness ==
    /\ RoundTripReturned
    /\ rtMax >= 1
    /\ Len(rtSent) = rtMax + 1
    /\ LastSent = Response(429)
    /\ rtResult.err = ErrMaxRetries

(***************************************************************************)
(* httpReceiver.  One or two goroutines call Receive on one receiver.  A   *)
(* connection is what connect makes of a 200 response: the messages the    *)
(* server has sent on it and are not yet received, and whether the server  *)
(* still holds it open.  The reads and writes under hr.mu are one step     *)
(* each; nothing else of Receive is under the lock.                        *)
(***************************************************************************)
ConnectionRetriesLimit == 1
\* The messages the server has sent on a new connection: none or one.
SentAtFirst == {0, 1}

Goroutines == {"g1", "g2"}

ErrEstablish == "failed to establish connection after attempts"
ErrReceive == "failed to receive message after connection attempts"
ErrDeadline == "context deadline exceeded"

Connection(left, alive) == [left |-> left, alive |-> alive]
NotReturned == [err |-> "", conn |-> 0, attempts |-> 0]
ReturnedMessage(k) == [err |-> "", conn |-> k, attempts |-> 0]
ReturnedError(err, attempts) == [err |-> err, conn |-> 0, attempts |-> attempts]

Running(c) == hrPc[c] \in {"check", "connect", "wait", "reread", "receive"}

hrUnchanged(c) == UNCHANGED <<hrMax, hrActive, otherThanReceive>>

\* The top of the loop: connected and receiver are read under the read lock.
CheckConnection(c) ==
    /\ hrPc[c] = "check"
    /\ hrLocal' = [hrLocal EXCEPT ![c] = hrReceiver]
    /\ hrPc' = [hrPc EXCEPT ![c] =
                   IF ~hrConnected \/ hrReceiver = 0 THEN "connect" ELSE "receive"]
    /\ UNCHANGED <<hrConnected, hrReceiver, hrConns, hrAttempt, hrCtxDone, hrResult,
                   hrConnects, hrFailures, hrLost>>
    /\ hrUnchanged(c)

\* connect succeeds: a connection is made and the receiver is set to it.
\* A request whose context is done fails.
ConnectSucceeds(c) ==
    /\ hrPc[c] = "connect"
    /\ ~hrCtxDone[c]
    /\ \E left \in SentAtFirst :
          hrConns' = Append(hrConns, Connection(left, TRUE))
    /\ hrReceiver' = Len(hrConns) + 1
    /\ hrConnected' = TRUE
    /\ hrConnects' = [hrConnects EXCEPT ![c] = @ + 1]
    /\ hrPc' = [hrPc EXCEPT ![c] = "reread"]
    /\ UNCHANGED <<hrAttempt, hrLocal, hrCtxDone, hrResult, hrFailures, hrLost>>
    /\ hrUnchanged(c)

\* connect fails: the error is returned at the last attempt, and before it
\* the call waits.
ConnectFails(c) ==
    /\ hrPc[c] = "connect"
    /\ hrConnects' = [hrConnects EXCEPT ![c] = @ + 1]
    /\ hrFailures' = [hrFailures EXCEPT ![c] = @ + 1]
    /\ IF hrAttempt[c] = hrMax
       THEN /\ hrPc' = [hrPc EXCEPT ![c] = "returned"]
            /\ hrResult' = [hrResult EXCEPT ![c] = ReturnedError(ErrEstablish, hrMax + 1)]
       ELSE /\ hrPc' = [hrPc EXCEPT ![c] = "wait"]
            /\ UNCHANGED hrResult
    /\ UNCHANGED <<hrConnected, hrReceiver, hrConns, hrAttempt, hrLocal, hrCtxDone, hrLost>>
    /\ hrUnchanged(c)

\* The wait with a delay that passes whether or not the context is done.
DelayElapsedAnyway(c) ==
    /\ hrPc[c] = "wait"
    /\ hrAttempt' = [hrAttempt EXCEPT ![c] = @ + 1]
    /\ hrPc' = [hrPc EXCEPT ![c] = "check"]
    /\ UNCHANGED <<hrConnected, hrReceiver, hrConns, hrLocal, hrCtxDone, hrResult,
                   hrConnects, hrFailures, hrLost>>
    /\ hrUnchanged(c)

\* The select of the wait: the delay passes before the context is done.
DelayElapsed(c) ==
    /\ hrPc[c] = "wait"
    /\ ~hrCtxDone[c]
    /\ hrAttempt' = [hrAttempt EXCEPT ![c] = @ + 1]
    /\ hrPc' = [hrPc EXCEPT ![c] = "check"]
    /\ UNCHANGED <<hrConnected, hrReceiver, hrConns, hrLocal, hrCtxDone, hrResult,
                   hrConnects, hrFailures, hrLost>>
    /\ hrUnchanged(c)

\* The select of the wait: the context is done.
DelayCancelled(c) ==
    /\ hrPc[c] = "wait"
    /\ hrCtxDone[c]
    /\ hrPc' = [hrPc EXCEPT ![c] = "returned"]
    /\ hrResult' = [hrResult EXCEPT ![c] = ReturnedError(ErrDeadline, 0)]
    /\ UNCHANGED <<hrConnected, hrReceiver, hrConns, hrAttempt, hrLocal, hrCtxDone,
                   hrConnects, hrFailures, hrLost>>
    /\ hrUnchanged(c)

\* After connect the receiver is read again under the read lock.  It is nil
\* when another call has reset it since: receiver.Receive then panics.
RereadReceiver(c) ==
    /\ hrPc[c] = "reread"
    /\ hrLocal' = [hrLocal EXCEPT ![c] = hrReceiver]
    /\ hrPc' = [hrPc EXCEPT ![c] = IF hrReceiver = 0 THEN "panicked" ELSE "receive"]
    /\ UNCHANGED <<hrConnected, hrReceiver, hrConns, hrAttempt, hrCtxDone, hrResult,
                   hrConnects, hrFailures, hrLost>>
    /\ hrUnchanged(c)

\* receiver.Receive returns a message of the call's connection.
ReceiveMessage(c) ==
    /\ hrPc[c] = "receive"
    /\ hrConns[hrLocal[c]].left > 0
    /\ hrConns' = [hrConns EXCEPT ![hrLocal[c]].left = @ - 1]
    /\ hrPc' = [hrPc EXCEPT ![c] = "returned"]
    /\ hrResult' = [hrResult EXCEPT ![c] = ReturnedMessage(hrLocal[c])]
    /\ UNCHANGED <<hrConnected, hrReceiver, hrAttempt, hrLocal, hrCtxDone,
                   hrConnects, hrFailures, hrLost>>
    /\ hrUnchanged(c)

\* receiver.Receive returns an error, io.EOF at the end of the connection or
\* the error of the context: connected and receiver are reset under the
\* write lock, and the loop goes on unless this was the last attempt.
ReceiveFails(c) ==
    /\ hrPc[c] = "receive"
    /\ \/ hrConns[hrLocal[c]].left = 0 /\ ~hrConns[hrLocal[c]].alive
       \/ hrCtxDone[c]
    /\ hrConnected' = FALSE
    /\ hrReceiver' = 0
    /\ hrLost' = [hrLost EXCEPT ![c] = hrLocal[c]]
    /\ IF hrAttempt[c] = hrMax
       THEN /\ hrPc' = [hrPc EXCEPT ![c] = "returned"]
            /\ hrResult' = [hrResult EXCEPT ![c] = ReturnedError(ErrReceive, hrMax + 1)]
            /\ UNCHANGED hrAttempt
       ELSE /\ hrPc' = [hrPc EXCEPT ![c] = "check"]
            /\ hrAttempt' = [hrAttempt EXCEPT ![c] = @ + 1]
            /\ UNCHANGED hrResult
    /\ UNCHANGED <<hrConns, hrLocal, hrCtxDone, hrConnects, hrFailures>>
    /\ hrUnchanged(c)

\* The context of a call ends.
ContextEnds(c) ==
    /\ Running(c)
    /\ ~hrCtxDone[c]
    /\ hrCtxDone' = [hrCtxDone EXCEPT ![c] = TRUE]
    /\ UNCHANGED <<hrConnected, hrReceiver, hrConns, hrPc, hrAttempt, hrLocal, hrResult,
                   hrConnects, hrFailures, hrLost>>
    /\ hrUnchanged(c)

\* The server ends a connection.
ServerCloses ==
    /\ \E k \in 1..Len(hrConns) :
          /\ hrConns[k].alive
          /\ hrConns' = [hrConns EXCEPT ![k].alive = FALSE]
    /\ UNCHANGED <<hrMax, hrActive, hrConnected, hrReceiver, hrPc, hrAttempt, hrLocal,
                   hrCtxDone, hrResult, hrConnects, hrFailures, hrLost, otherThanReceive>>

NextReceive ==
    \/ \E c \in Goroutines : CheckConnection(c)
    \/ \E c \in Goroutines : ConnectSucceeds(c)
    \/ \E c \in Goroutines : ConnectFails(c)
    \/ \E c \in Goroutines : DelayElapsed(c)
    \/ \E c \in Goroutines : DelayCancelled(c)
    \/ \E c \in Goroutines : RereadReceiver(c)
    \/ \E c \in Goroutines : ReceiveMessage(c)
    \/ \E c \in Goroutines : ReceiveFails(c)
    \/ \E c \in Goroutines : ContextEnds(c)
    \/ ServerCloses

\* NewHttpReceiver, and Receive called by one goroutine or by two.
InitReceive ==
    /\ hrMax \in 0..ConnectionRetriesLimit
    /\ hrActive \in {{"g1"}, Goroutines}
    /\ hrConnected = FALSE
    /\ hrReceiver = 0
    /\ hrConns = <<>>
    /\ hrPc = [c \in Goroutines |-> IF c \in hrActive THEN "check" ELSE "off"]
    /\ hrAttempt = [c \in Goroutines |-> 0]
    /\ hrLocal = [c \in Goroutines |-> 0]
    /\ hrCtxDone = [c \in Goroutines |-> FALSE]
    /\ hrResult = [c \in Goroutines |-> NotReturned]
    /\ hrConnects = [c \in Goroutines |-> 0]
    /\ hrFailures = [c \in Goroutines |-> 0]
    /\ hrLost = [c \in Goroutines |-> 0]
    /\ IdleValidate
    /\ IdleFormat
    /\ IdleEnum
    /\ IdleTag
    /\ IdleLiteral
    /\ IdleHandOff
    /\ IdleParse
    /\ IdleRetry
    /\ IdleSse
    /\ IdleMessage
    /\ IdlePusher

SpecReceive == InitReceive /\ [][NextReceive]_vars

(***************************************************************************)
(* C23                                                                     *)
(***************************************************************************)
ReturnedCall(c) == hrPc[c] = "returned"

AtMostMaxPlusOneConnects == \A c \in Goroutines : hrConnects[c] <= hrMax + 1

\* A call all of whose maxConnectionRetries+1 attempts to connect failed
\* returns the error that names that number of attempts.
AllFailedIsError ==
    \A c \in Goroutines :
        (ReturnedCall(c) /\ hrFailures[c] = hrMax + 1)
            => hrResult[c] = ReturnedError(ErrEstablish, hrMax + 1)

\* A call gives up on a lost connection only at its last attempt, and the
\* message a lone call returns after a loss is of a connection it has made
\* after the loss.
LostIsRetried ==
    /\ \A c \in Goroutines :
          (ReturnedCall(c) /\ hrResult[c].err = ErrReceive) => hrAttempt[c] = hrMax
    /\ (hrActive = {"g1"} /\ ReturnedCall("g1") /\ hrLost["g1"] # 0
            /\ hrResult["g1"].conn # 0)
          => (hrResult["g1"].conn > hrLost["g1"] /\ hrConnects["g1"] >= 2)

\* A wait that ends with the context done ends with the context's error.
CancelledWaitReturns ==
    \A c \in Goroutines :
        (hrPc[c] = "wait" /\ hrCtxDone[c] /\ hrPc'[c] # "wait")
            => (hrPc'[c] = "returned" /\ hrResult'[c].err = ErrDeadline)

\* C23: a call of Receive makes at most maxConnectionRetries+1 connection
\* attempts; when all of them fail it returns "failed to establish
\* connection after <maxConnectionRetries+1> attempts"; a connection lost
\* while attempts remain is made anew by the same call, which returns a
\* message of the new connection; and a context that ends during the wait
\* between two attempts makes the call return the context's error.
C23_ReceiveRetries ==
    /\ [](AtMostMaxPlusOneConnects /\ AllFailedIsError /\ LostIsRetried)
    /\ [][CancelledWaitReturns]_vars

\* A lone call has lost its connection, made another and returned a message
\* of it.
C23_Witness ==
    /\ hrActive = {"g1"}
    /\ ReturnedCall("g1")
    /\ hrLost["g1"] # 0
    /\ hrResult["g1"].conn > hrLost["g1"]

\* A call has returned the context's error from its wait.
C23_WitnessCancelled ==
    \E c \in Goroutines : ReturnedCall(c) /\ hrResult[c].err = ErrDeadline

\* A call has returned after all its attempts to connect failed.
C23_WitnessAllFailed ==
    \E c \in Goroutines : ReturnedCall(c) /\ hrFailures[c] = hrMax + 1 /\ hrMax >= 1

(***************************************************************************)
(* C29                                                                     *)
(***************************************************************************)
\* The connections the client has not read to their end.
OpenConnections ==
    {k \in 1..Len(hrConns) : hrConns[k].alive \/ hrConns[k].left > 0}

BothConnect ==
    \E c, d \in Goroutines : c # d /\ hrPc[c] = "connect" /\ hrPc[d] = "connect"

\* An open connection that is not the receiver's: its reader was replaced
\* or dropped, and what the server sends on it is read by no later call.
Orphaned(k) == k \in OpenConnections /\ k # hrReceiver

OneConnection ==
    /\ Cardinality(OpenConnections) <= 1
    /\ ~BothConnect
    /\ \A k \in 1..Len(hrConns) : ~Orphaned(k)

\* C29: with several goroutines in Receive on one httpReceiver at most one
\* connection is open at any time, no two of them run connect for the same
\* disconnected state, and no open connection has its reader replaced, so
\* that none is left without an owner and none of its messages is dropped.
C29_OneConnectionAtATime == hrActive = Goroutines => OneConnection

\* The same of a lone goroutine whose context does not end.
C29_LoneCallerOneConnection ==
    (hrActive = {"g1"} /\ ~hrCtxDone["g1"]) => OneConnection

\* Two connections are open, the first with a message no call will read.
C29_MessageDropped ==
    /\ \A c \in Goroutines : ~hrCtxDone[c]
    /\ Cardinality(OpenConnections) = 2
    /\ hrReceiver = 2
    /\ hrConns[1].left > 0
    /\ \A c \in Goroutines : hrPc[c] \in {"returned", "receive"} /\ hrLocal[c] # 1

\* A goroutine has read a nil receiver after its connect.
C29_Panicked == \E c \in Goroutines : hrPc[c] = "panicked"

(***************************************************************************)
(* Parse and parseMessageOptimized.  The reader is given as the lines      *)
(* bufio.Scanner finds in it, a line as its characters.                    *)
(***************************************************************************)
MaxMessages == 2

EmptyMessage == [Id |-> <<>>, Event |-> <<>>, Data |-> <<>>]
IsEmptyMessage(msg) == msg.Id = <<>> /\ msg.Event = <<>> /\ msg.Data = <<>>

FieldId == <<"i", "d">>
FieldEvent == <<"e", "v", "e", "n", "t">>
FieldData == <<"d", "a", "t", "a">>
EventDone == <<"d", "o", "n", "e">>

\* The index of the first ':' that a space follows, 0 when there is none.
ColonIndex(line) ==
    LET found == {i \in 1..Len(line) :
                     line[i] = ":" /\ i + 1 <= Len(line) /\ line[i + 1] = " "}
    IN  IF found = {} THEN 0 ELSE CHOOSE i \in found : \A j \in found : i <= j

\* A line `field: value` sets the field of the message.
SetField(msg, line) ==
    LET colonIndex == ColonIndex(line)
        field == SubSeq(line, 1, colonIndex - 1)
        value == SubSeq(line, colonIndex + 2, Len(line))
    IN  IF colonIndex = 0 THEN msg
        ELSE IF field = FieldId THEN [msg EXCEPT !.Id = value]
        ELSE IF field = FieldEvent THEN [msg EXCEPT !.Event = value]
        ELSE IF field = FieldData THEN [msg EXCEPT !.Data = value]
        ELSE msg

\* The loop of parseMessageOptimized from line i on, and its return: the
\* message, or io.EOF when no field was set.
RECURSIVE scanMessage(_, _, _, _)
scanMessage(lines, i, msg, isComment) ==
    IF i > Len(lines) THEN [msg |-> msg, i |-> i]
    ELSE IF Len(lines[i]) = 0
    THEN IF isComment THEN scanMessage(lines, i + 1, msg, FALSE)
         ELSE [msg |-> msg, i |-> i + 1]
    ELSE IF lines[i][1] = ":" THEN scanMessage(lines, i + 1, msg, TRUE)
    ELSE scanMessage(lines, i + 1, SetField(msg, lines[i]), isComment)

parseMessageOptimized(lines, i) ==
    LET r == scanMessage(lines, i, EmptyMessage, FALSE)
    IN  [msg |-> r.msg, i |-> r.i, eof |-> IsEmptyMessage(r.msg)]

\* The goroutine of Parse: the messages sent on the channel, in order.
RECURSIVE parseFrom(_, _, _)
parseFrom(lines, i, sent) ==
    LET r == parseMessageOptimized(lines, i)
    IN  IF r.eof THEN sent
        ELSE IF r.msg.Event = EventDone THEN Append(sent, r.msg)
        ELSE parseFrom(lines, r.i, Append(sent, r.msg))

Parse(lines) == parseFrom(lines, 1, <<>>)

\* The stream with a comment line after its first n lines, and with an
\* empty line after the comment or without.
CommentLine == <<":", " ", "c">>
WithComment(lines, n, blank) ==
    SubSeq(lines, 1, n) \o <<CommentLine>> \o (IF blank THEN <<<<>>>> ELSE <<>>)
        \o SubSeq(lines, n + 1, Len(lines))

RunParse ==
    /\ ssePc = "parse"
    /\ ssePlain' = Parse(sseStream)
    /\ sseCommented' = Parse(WithComment(sseStream, sseInsert, sseBlank))
    /\ ssePc' = "done"
    /\ UNCHANGED <<sseStream, sseInsert, sseBlank, otherThanSse>>

NextSse == RunParse

\* The messages of the streams: one, two or three field lines in the order
\* id, event, data, and the empty line that ends the message.
IdLines == {<<>>, <<<<"i", "d", ":", " ", "1">>>>, <<<<"i", "d", ":", " ", "2">>>>}
EventLines ==
    {<<>>, <<<<"e", "v", "e", "n", "t", ":", " ", "e">>>>,
     <<<<"e", "v", "e", "n", "t", ":", " ", "d", "o", "n", "e">>>>}
DataLines == {<<>>, <<<<"d", "a", "t", "a", ":", " ", "a">>>>,
              <<<<"d", "a", "t", "a", ":", " ", "x", ":", " ", "y">>>>}
MessageLines ==
    {id \o ev \o data \o <<<<>>>> :
        id \in IdLines, ev \in EventLines, data \in DataLines} \ {<<<<>>>>}
SseStreams == {Concat(ms) : ms \in SeqsUpTo(MessageLines, MaxMessages)}

InitSse ==
    /\ sseStream \in SseStreams
    /\ sseInsert \in 0..Len(sseStream)
    /\ sseBlank \in BOOLEAN
    /\ ssePc = "parse"
    /\ ssePlain = <<>>
    /\ sseCommented = <<>>
    /\ IdleValidate
    /\ IdleFormat
    /\ IdleEnum
    /\ IdleTag
    /\ IdleLiteral
    /\ IdleHandOff
    /\ IdleParse
    /\ IdleRetry
    /\ IdleReceive
    /\ IdleMessage
    /\ IdlePusher

SpecSse == InitSse /\ [][NextSse]_vars

(***************************************************************************)
(* C24                                                                     *)
(***************************************************************************)
SseDone == ssePc = "done"

\* C24: a comment line put anywhere in a stream, before a message, between
\* two messages or between the field lines of a message, leaves the
\* sequence of messages Parse delivers as it was.
C24_CommentsIgnored == (SseDone /\ ~sseBlank) => sseCommented = ssePlain

\* The same of a comment line that an empty line follows.
C24_CommentBlocksIgnored == (SseDone /\ sseBlank) => sseCommented = ssePlain

\* A comment with its empty line was put between the field lines of the
\* first of two messages.
C24_WitnessBlock ==
    /\ SseDone
    /\ sseBlank
    /\ sseInsert = 1
    /\ Len(ssePlain) = 2
    /\ Len(sseStream[2]) > 0

(***************************************************************************)
(* Message.Read and Message.Write.  A string and a byte slice are the      *)
(* sequences of their characters.  The bytes of a Message are read into a  *)
(* buffer of msgCap bytes, call after call up to io.EOF, and are written   *)
(* to another Message in one call of Write.                                *)
(***************************************************************************)
StackBufferSize == 64
EstimateOverhead == 20

NewLine == "\n"
PrefixId == <<"i", "d", ":", " ">>
PrefixEvent == <<"e", "v", "e", "n", "t", ":", " ">>
PrefixData == <<"d", "a", "t", "a", ":", " ">>
PingComment == <<":", " ", "p", "i", "n", "g", NewLine, NewLine>>
EventPing == <<"p", "i", "n", "g">>

FieldLine(prefix, value) ==
    IF value = <<>> THEN <<>> ELSE prefix \o value \o <<NewLine>>

\* What Read appends to its buffer, the array on the stack and the pooled
\* buffer alike.
Serialized(m) ==
    LET buf == FieldLine(PrefixId, m.Id) \o FieldLine(PrefixEvent, m.Event)
                   \o FieldLine(PrefixData, m.Data)
    IN  IF Len(buf) = 0 THEN PingComment ELSE buf \o <<NewLine>>

Min(a, b) == IF a < b THEN a ELSE b

\* One call of Read with a buffer of msgCap bytes.
MessageRead ==
    /\ msgPc = "read"
    /\ LET estimatedSize == Len(msgIn.Id) + Len(msgIn.Event) + Len(msgIn.Data)
                                + EstimateOverhead
           fresh == msgRemaining = 0
           small == fresh /\ estimatedSize <= StackBufferSize
           buf == IF fresh THEN Serialized(msgIn) ELSE msgBuffer
           n == Min(msgCap, Len(buf))
           rest == SubSeq(buf, n + 1, Len(buf))
       IN  /\ msgBytes' = msgBytes \o SubSeq(buf, 1, n)
           /\ IF small /\ n = Len(buf)
              THEN /\ msgPc' = "write"
                   /\ UNCHANGED <<msgBuffer, msgRemaining>>
              ELSE /\ msgBuffer' = rest
                   /\ msgRemaining' = Len(rest)
                   /\ msgPc' = IF Len(rest) = 0 THEN "write" ELSE "read"
    /\ UNCHANGED <<msgIn, msgCap, msgOut, otherThanMessage>>

\* The first index from i on of a byte in stops, or Len(b) + 1.
RECURSIVE IndexFrom(_, _, _)
IndexFrom(b, i, stops) ==
    IF i > Len(b) \/ b[i] \in stops THEN i ELSE IndexFrom(b, i + 1, stops)

\* Where the value begins: after the colon at j and after one space.
ValueStartAfterColon(b, j) == j + 1
ValueStart(b, j) == IF j + 1 <= Len(b) /\ b[j + 1] = " " THEN j + 2 ELSE j + 1

\* The loop of Write from byte i on.
RECURSIVE writeFrom(_, _, _)
writeFrom(b, i, m) ==
    IF i > Len(b) THEN m
    ELSE LET j == IndexFrom(b, i, {":", NewLine})
             fieldBytes == SubSeq(b, i, j - 1)
             start == ValueStart(b, j)
             end == IndexFrom(b, start, {NewLine})
             valueBytes == SubSeq(b, start, end - 1)
         IN  IF j > Len(b) \/ b[j] = NewLine THEN writeFrom(b, j + 1, m)
             ELSE IF fieldBytes = FieldId
             THEN writeFrom(b, end + 1, [m EXCEPT !.Id = valueBytes])
             ELSE IF fieldBytes = FieldEvent
             THEN IF valueBytes = EventPing THEN EmptyMessage
                  ELSE writeFrom(b, end + 1, [m EXCEPT !.Event = valueBytes])
             ELSE IF fieldBytes = FieldData
             THEN writeFrom(b, end + 1, [m EXCEPT !.Data = valueBytes])
             ELSE writeFrom(b, end + 1, m)

\* One call of Write with all the bytes that were read.
MessageWrite ==
    /\ msgPc = "write"
    /\ msgOut' = writeFrom(msgBytes, 1, EmptyMessage)
    /\ msgPc' = "done"
    /\ UNCHANGED <<msgIn, msgCap, msgBuffer, msgRemaining, msgBytes, otherThanMessage>>

NextMessage == MessageRead \/ MessageWrite

\* The texts of the fields: empty, short, with a space in front, with a
\* colon, the name of the ping event, with a line break, and a text long
\* enough for the message to take the pooled buffer.
LongText == [i \in 1..48 |-> "x"]
IdTexts == {<<>>, <<"1">>, <<" ", "1">>, <<"a", ":", "b">>}
EventTexts == {<<>>, <<"e">>, <<"p", "i", "n", "g">>, <<"p", "i", "n", "g", "s">>}
DataTexts == {<<>>, <<"d">>, <<"x", ":", " ", "y">>, <<"a", NewLine, "b">>, LongText}
BufferSizes == {5, 64, 512}

InitMessage ==
    /\ msgIn \in [Id : IdTexts, Event : EventTexts, Data : DataTexts]
    /\ msgCap \in BufferSizes
    /\ msgBuffer = <<>>
    /\ msgRemaining = 0
    /\ msgBytes = <<>>
    /\ msgPc = "read"
    /\ msgOut = <<>>
    /\ IdleValidate
    /\ IdleFormat
    /\ IdleEnum
    /\ IdleTag
    /\ IdleLiteral
    /\ IdleHandOff
    /\ IdleParse
    /\ IdleRetry
    /\ IdleReceive
    /\ IdleSse
    /\ IdlePusher

SpecMessage == InitMessage /\ [][NextMessage]_vars

(***************************************************************************)
(* C25                                                                     *)
(***************************************************************************)
HasLineBreak(text) == \E i \in 1..Len(text) : text[i] = NewLine
Plain(m) ==
    /\ ~HasLineBreak(m.Id) /\ ~HasLineBreak(m.Event) /\ ~HasLineBreak(m.Data)
    /\ ~IsEmptyMessage(m)
MessageDone == msgPc = "done"

\* C25: the bytes Read produces of a Message whose fields hold no line
\* break and are not all empty give, written to another Message, the same
\* Id, Event and Data.
C25_ReadWriteRoundTrip == (MessageDone /\ Plain(msgIn)) => msgOut = msgIn

\* C25 as the code has it: Write takes a line `event: ping` for a ping and
\* clears the Message, so the Event must not be "ping".
C25_RoundTripUnlessPing ==
    (MessageDone /\ Plain(msgIn) /\ msgIn.Event # EventPing) => msgOut = msgIn

\* A message of three fields, too long for the array on the stack, was read
\* in several calls and written.
C25_Witness ==
    /\ MessageDone
    /\ msgIn.Id = <<" ", "1">>
    /\ msgIn.Event = <<"e">>
    /\ msgIn.Data = LongText
    /\ msgCap = 5
    /\ msgOut = msgIn

(***************************************************************************)
(* rawPusher.  One goroutine calls Push, two call Close, and the goroutine *)
(* of timerHandler, once Push has started it, sends the pings.  A step is  *)
(* what a goroutine does between two points where another may run: a load  *)
(* or a swap of closed, taking mtx, the part of a function under mtx.      *)
(***************************************************************************)
PushCalls == 2
PingsLimit == 1

Pusher == "p1"
Handler == "h"
Closers == {"c1", "c2"}
PushGoroutines == {Pusher, Handler}
PusherGoroutines == PushGoroutines \cup Closers

ErrClosedPipe == "io: read/write on closed pipe"
ErrNil == "nil"
NoReturn == "none"

\* Push returns err: to its caller, or to sendPing in timerHandler.
PushReturns(t, err) ==
    /\ puErr' = [puErr EXCEPT ![t] = err]
    /\ puPc' = [puPc EXCEPT ![t] = IF t = Handler THEN "reset" ELSE "idle"]

\* A goroutine calls Push.
StartPush ==
    /\ puPc[Pusher] = "idle"
    /\ puCalls[Pusher] < PushCalls
    /\ puPc' = [puPc EXCEPT ![Pusher] = "fast"]
    /\ puCalls' = [puCalls EXCEPT ![Pusher] = @ + 1]
    /\ puLate' = [puLate EXCEPT ![Pusher] = puCloseReturned]
    /\ puErr' = [puErr EXCEPT ![Pusher] = NoReturn]
    /\ UNCHANGED <<puTimeout, puClosed, puMtx, puTimer, puDone, puWritten,
                   puCloseReturned, puWrittenLate, puFired, otherThanPusher>>

\* The load of closed before the lock.
PushFast(t) ==
    /\ puPc[t] = "fast"
    /\ IF puClosed = 1 THEN PushReturns(t, ErrClosedPipe)
       ELSE /\ puPc' = [puPc EXCEPT ![t] = "lock"]
            /\ UNCHANGED puErr
    /\ UNCHANGED <<puTimeout, puClosed, puMtx, puTimer, puDone, puCalls, puLate,
                   puWritten, puCloseReturned, puWrittenLate, puFired, otherThanPusher>>

PushLock(t) ==
    /\ puPc[t] = "lock"
    /\ puMtx = ""
    /\ puMtx' = t
    /\ puPc' = [puPc EXCEPT ![t] = "locked"]
    /\ UNCHANGED <<puTimeout, puClosed, puTimer, puDone, puCalls, puErr, puLate,
                   puWritten, puCloseReturned, puWrittenLate, puFired, otherThanPusher>>

\* Under the lock: the second load of closed, and the timer, which the
\* first Push makes, with the goroutine of timerHandler, and a later Push
\* resets.
PushLocked(t) ==
    /\ puPc[t] = "locked"
    /\ IF puClosed = 1
       THEN /\ PushReturns(t, ErrClosedPipe)
            /\ puMtx' = ""
            /\ UNCHANGED puTimer
       ELSE /\ puTimer' = IF puTimeout THEN "armed" ELSE puTimer
            /\ puPc' = [puPc EXCEPT ![t] = "write",
                                    ![Handler] =
                                        IF puTimeout /\ puTimer = "nil" THEN "select"
                                        ELSE IF t = Handler THEN "write" ELSE @]
            /\ UNCHANGED <<puMtx, puErr>>
    /\ UNCHANGED <<puTimeout, puClosed, puDone, puCalls, puLate, puWritten,
                   puCloseReturned, puWrittenLate, puFired, otherThanPusher>>

\* io.Copy writes the message, and the deferred Unlock runs.
PushWrite(t) ==
    /\ puPc[t] = "write"
    /\ puWritten' = puWritten + 1
    /\ puWrittenLate' = puWrittenLate + (IF puCloseReturned THEN 1 ELSE 0)
    /\ puMtx' = ""
    /\ PushReturns(t, ErrNil)
    /\ UNCHANGED <<puTimeout, puClosed, puTimer, puDone, puCalls, puLate,
                   puCloseReturned, puFired, otherThanPusher>>

\* The timeout passes: the timer sends on its channel.
TimerFires ==
    /\ puTimer = "armed"
    /\ puFired < PingsLimit
    /\ puTimer' = "fired"
    /\ puFired' = puFired + 1
    /\ UNCHANGED <<puTimeout, puClosed, puMtx, puDone, puPc, puCalls, puErr, puLate,
                   puWritten, puCloseReturned, puWrittenLate, otherThanPusher>>

\* The select of timerHandler receives of the timer.
HandlerTimer ==
    /\ puPc[Handler] = "select"
    /\ puTimer = "fired"
    /\ puTimer' = "expired"
    /\ puPc' = [puPc EXCEPT ![Handler] = "woken"]
    /\ UNCHANGED <<puTimeout, puClosed, puMtx, puDone, puCalls, puErr, puLate,
                   puWritten, puCloseReturned, puWrittenLate, puFired, otherThanPusher>>

\* The select of timerHandler receives of done: the goroutine returns.
HandlerDone ==
    /\ puPc[Handler] = "select"
    /\ puDone > 0
    /\ puPc' = [puPc EXCEPT ![Handler] = "ended"]
    /\ UNCHANGED <<puTimeout, puClosed, puMtx, puTimer, puDone, puCalls, puErr, puLate,
                   puWritten, puCloseReturned, puWrittenLate, puFired, otherThanPusher>>

\* After the timer: the goroutine returns when the pusher is closed.
HandlerWoken ==
    /\ puPc[Handler] = "woken"
    /\ puPc' = [puPc EXCEPT ![Handler] = IF puClosed = 1 THEN "ended" ELSE "ping"]
    /\ UNCHANGED <<puTimeout, puClosed, puMtx, puTimer, puDone, puCalls, puErr, puLate,
                   puWritten, puCloseReturned, puWrittenLate, puFired, otherThanPusher>>

\* sendPing: closed is loaded under the read lock, and Push is called.
HandlerPing ==
    /\ puPc[Handler] = "ping"
    /\ puMtx = ""
    /\ IF puClosed = 1
       THEN /\ puPc' = [puPc EXCEPT ![Handler] = "reset"]
            /\ UNCHANGED <<puCalls, puErr, puLate>>
       ELSE /\ puPc' = [puPc EXCEPT ![Handler] = "fast"]
            /\ puCalls' = [puCalls EXCEPT ![Handler] = @ + 1]
            /\ puLate' = [puLate EXCEPT ![Handler] = puCloseReturned]
            /\ puErr' = [puErr EXCEPT ![Handler] = NoReturn]
    /\ UNCHANGED <<puTimeout, puClosed, puMtx, puTimer, puDone, puWritten,
                   puCloseReturned, puWrittenLate, puFired, otherThanPusher>>

\* The timer is reset for the next ping unless the pusher is closed.
HandlerReset ==
    /\ puPc[Handler] = "reset"
    /\ puTimer' = IF puTimeout /\ puClosed = 0 THEN "armed" ELSE puTimer
    /\ puPc' = [puPc EXCEPT ![Handler] = "select"]
    /\ UNCHANGED <<puTimeout, puClosed, puMtx, puDone, puCalls, puErr, puLate,
                   puWritten, puCloseReturned, puWrittenLate, puFired, otherThanPusher>>

\* Close: the compare-and-swap of closed.  A Close that finds it 1 returns.
CloseSwap(c) ==
    /\ puPc[c] = "idle"
    /\ IF puClosed = 0
       THEN /\ puClosed' = 1
            /\ puPc' = [puPc EXCEPT ![c] = "lock"]
            /\ UNCHANGED <<puErr, puCloseReturned>>
       ELSE /\ puPc' = [puPc EXCEPT ![c] = "returned"]
            /\ puErr' = [puErr EXCEPT ![c] = ErrNil]
            /\ puCloseReturned' = TRUE
            /\ UNCHANGED puClosed
    /\ UNCHANGED <<puTimeout, puMtx, puTimer, puDone, puCalls, puLate, puWritten,
                   puWrittenLate, puFired, otherThanPusher>>

CloseLock(c) ==
    /\ puPc[c] = "lock"
    /\ puMtx = ""
    /\ puMtx' = c
    /\ puPc' = [puPc EXCEPT ![c] = "locked"]
    /\ UNCHANGED <<puTimeout, puClosed, puTimer, puDone, puCalls, puErr, puLate,
                   puWritten, puCloseReturned, puWrittenLate, puFired, otherThanPusher>>

\* Under the lock the timer is stopped and done is closed.  Stop leaves in
\* the channel what a timer that has fired has sent, or takes it away.
CloseFinish(c) ==
    /\ puPc[c] = "locked"
    /\ \E left \in BOOLEAN :
          puTimer' = IF puTimer = "armed" \/ (puTimer = "fired" /\ ~left)
                     THEN "stopped" ELSE puTimer
    /\ puDone' = puDone + 1
    /\ puMtx' = ""
    /\ puPc' = [puPc EXCEPT ![c] = "returned"]
    /\ puErr' = [puErr EXCEPT ![c] = ErrNil]
    /\ puCloseReturned' = TRUE
    /\ UNCHANGED <<puTimeout, puClosed, puCalls, puLate, puWritten, puWrittenLate,
                   puFired, otherThanPusher>>

NextPusher ==
    \/ StartPush
    \/ \E t \in PushGoroutines : PushFast(t)
    \/ \E t \in PushGoroutines : PushLock(t)
    \/ \E t \in PushGoroutines : PushLocked(t)
    \/ \E t \in PushGoroutines : PushWrite(t)
    \/ TimerFires
    \/ HandlerTimer
    \/ HandlerDone
    \/ HandlerWoken
    \/ HandlerPing
    \/ HandlerReset
    \/ \E c \in Closers : CloseSwap(c)
    \/ \E c \in Closers : CloseLock(c)
    \/ \E c \in Closers : CloseFinish(c)

\* NewPusher, with a timeout or without.
InitPusher ==
    /\ puTimeout \in BOOLEAN
    /\ puClosed = 0
    /\ puMtx = ""
    /\ puTimer = "nil"
    /\ puDone = 0
    /\ puPc = [t \in PusherGoroutines |-> IF t = Handler THEN "none" ELSE "idle"]
    /\ puCalls = [t \in PushGoroutines |-> 0]
    /\ puErr = [t \in PusherGoroutines |-> NoReturn]
    /\ puLate = [t \in PushGoroutines |-> FALSE]
    /\ puWritten = 0
    /\ puCloseReturned = FALSE
    /\ puWrittenLate = 0
    /\ puFired = 0
    /\ IdleValidate
    /\ IdleFormat
    /\ IdleEnum
    /\ IdleTag
    /\ IdleLiteral
    /\ IdleHandOff
    /\ IdleParse
    /\ IdleRetry
    /\ IdleReceive
    /\ IdleSse
    /\ IdleMessage

SpecPusher == InitPusher /\ [][NextPusher]_vars

\* Every goroutine that can take a step takes one.
SpecPusherFair == SpecPusher /\ WF_vars(NextPusher)

(***************************************************************************)
(* C30                                                                     *)
(***************************************************************************)
HandlerStarted == puPc[Handler] # "none"
HandlerEnded == puPc[Handler] = "ended"

CloseIsFinal ==
    /\ puWrittenLate = 0
    /\ \A t \in PushGoroutines :
          (puLate[t] /\ puErr[t] # NoReturn) => puErr[t] = ErrClosedPipe
    /\ puDone <= 1
    /\ \A c \in Closers : puPc[c] = "returned" => puErr[c] = ErrNil

\* C30: once a Close has returned nothing more is written, neither by a
\* Push in flight nor by a ping; a Push that begins afterwards returns
\* io.ErrClosedPipe; a further Close returns nil and done is closed once;
\* and the goroutine of timerHandler, when there is one, returns.
C30_CloseIsFinal ==
    /\ []CloseIsFinal
    /\ (puCloseReturned /\ HandlerStarted) ~> HandlerEnded

\* Both calls of Close have returned, a Push that began after one of them
\* has returned the error, and the goroutine of timerHandler has sent a
\* ping and has returned.
C30_Witness ==
    /\ \A c \in Closers : puPc[c] = "returned"
    /\ puLate[Pusher]
    /\ puErr[Pusher] = ErrClosedPipe
    /\ puCalls[Handler] > 0
    /\ HandlerEnded

\* The same after the Close that has set closed has returned, which is when
\* done is closed: no Push is about to write, and the goroutine of
\* timerHandler returns.
C30_FinalAfterDoneClosed ==
    /\ [](puDone > 0 =>
            /\ puClosed = 1
            /\ puDone = 1
            /\ \A t \in PushGoroutines : puPc[t] # "write")
    /\ (puDone > 0 /\ HandlerStarted) ~> HandlerEnded

\* A Close has returned while a Push holds the lock and is about to write.
C30_ReturnedBeforePushEnds ==
    /\ puCloseReturned
    /\ puDone = 0
    /\ puPc[Pusher] = "write"

====
